---------------------------- MODULE Spec2Model ----------------------------
(***************************************************************************)
(* Model of the multi-signal classification engine of ai_analyzer.py:      *)
(* AIAnalyzer.analyze_component (conversion, validation, the four          *)
(* analyzers, fusion) and AIAnalyzer.analyze_batch.                        *)
(*                                                                         *)
(* Units.  Lengths are integer millimetres, on a 5 mm grid so that the     *)
(* volume of a bounding box is an integer number of 125 mm^3 cells.  Areas *)
(* are integer thousandths of a square metre.  Confidences and scores are  *)
(* binary64 values: the record [n, e] stands for the double whose decimal  *)
(* value is n/6000 and which lies e (-1, 0, +1) roundings away from the    *)
(* double nearest to n/6000, so that comparisons of two such records order *)
(* them exactly as Python orders the two doubles.                          *)
(***************************************************************************)
EXTENDS Integers, Sequences, FiniteSets, TLC

VARIABLES
    knowledge_base,      \* AIAnalyzer.knowledge_base
    keywords,            \* AIAnalyzer.keywords
    geometric_patterns,  \* AIAnalyzer.geometric_patterns
    validation_rules,    \* AIAnalyzer.validation_rules
    confidence_weights,  \* AIAnalyzer.confidence_weights
    componentes,         \* the caller's list of raw component records
    analisado,           \* the argument of the last analyze_component call
    resultado,           \* what the last analyze_component call returned
    chamadas,            \* the methods that call executed, in order
    lote,                \* what the last analyze_batch call returned
    analises,            \* the four analysis results handed to _combine_analyses
    fusao                \* what _combine_analyses returned for them

vars == <<knowledge_base, keywords, geometric_patterns, validation_rules,
          confidence_weights, componentes, analisado, resultado, chamadas,
          lote, analises, fusao>>

self_vars == <<knowledge_base, keywords, geometric_patterns, validation_rules,
               confidence_weights>>

-----------------------------------------------------------------------------
(* Python values *)

PyNone == [t |-> "NoneType"]
PyNum(v) == [t |-> "num", v |-> v]
PyStr(s) == [t |-> "str", v |-> s]
PyList(l) == [t |-> "list", v |-> l]

\* A formatted message: its text and the numbers formatted into it.
Motivo(texto, valor) == [texto |-> texto, valor |-> valor]

\* dict.get(key, default)
Get(d, key, default) == IF key \in DOMAIN d THEN d[key] ELSE default

Min2(a, b) == IF a <= b THEN a ELSE b
Max2(a, b) == IF a >= b THEN a ELSE b
MinOf(s) == CHOOSE m \in s : \A o \in s : m <= o
MaxOf(s) == CHOOSE m \in s : \A o \in s : m >= o
Range(seq) == {seq[i] : i \in 1..Len(seq)}

-----------------------------------------------------------------------------
(* binary64 values *)

Fl(n, e) == [n |-> n, e |-> e]
Dec(n) == Fl(n, 0)                       \* a decimal literal: n/6000 rounded once
FLt(a, b) == a.n < b.n \/ (a.n = b.n /\ a.e < b.e)
FLe(a, b) == ~FLt(b, a)
FMin(a, b) == IF FLe(a, b) THEN a ELSE b   \* Python min(a, b): a unless b < a


\* The sub-scores (dims_score, prop_score, area hit, volume hit) for which
\*   0 + (dims_score / 3) * 0.4 + (prop_score / 2) * 0.3 [+ 0.2] [+ 0.1],
\* evaluated left to right in binary64, ends above (below) the double
\* nearest to its decimal value.
ScoreRoundedUp ==
    {<<0, 0, 1, 1>>, <<1, 0, 1, 0>>, <<2, 0, 0, 1>>, <<3, 0, 1, 0>>, <<3, 0, 1, 1>>}

ScoreRoundedDown ==
    {<<0, 1, 1, 1>>, <<1, 1, 0, 1>>, <<2, 1, 0, 0>>, <<2, 1, 0, 1>>, <<2, 2, 1, 0>>,
     <<2, 2, 1, 1>>, <<3, 2, 0, 1>>, <<3, 2, 1, 0>>, <<3, 2, 1, 1>>}

\* <<n, e, w>>: the product of the double Fl(n, e) and the weight w/10 ends
\* above (below) the double nearest to its decimal value.
ProductRoundedUp ==
    {<<1800, 1, 3>>, <<3500, 0, 3>>, <<3600, 1, 3>>, <<4200, 1, 3>>, <<4800, 0, 2>>}

ProductRoundedDown ==
    {<<2300, -1, 3>>, <<2500, -1, 3>>, <<2700, -1, 3>>, <<2800, 0, 3>>, <<3100, -1, 3>>,
     <<3400, 0, 3>>, <<3800, 0, 3>>, <<4000, 0, 3>>, <<4200, 0, 4>>, <<4400, 0, 3>>,
     <<4500, 0, 3>>, <<4600, -1, 3>>, <<4800, -1, 3>>, <<5200, -1, 3>>, <<5400, -1, 3>>}

\* <<n1, e1, n2, e2>>: the sum of the doubles Fl(n1, e1) and Fl(n2, e2) ends
\* above (below) the double nearest to its decimal value.
SumRoundedUp ==
    {<<600, 0, 630, 0>>, <<600, 0, 660, 0>>, <<600, 0, 1110, 0>>, <<600, 0, 1170, 0>>,
     <<600, 0, 1260, 1>>, <<960, 1, 540, 1>>, <<960, 1, 750, -1>>, <<960, 1, 780, 0>>,
     <<960, 1, 810, -1>>, <<960, 1, 840, -1>>, <<960, 1, 870, 0>>, <<960, 1, 900, 0>>,
     <<960, 1, 960, 0>>, <<960, 1, 990, 0>>, <<960, 1, 1050, 1>>, <<960, 1, 1080, 1>>,
     <<960, 1, 1110, 0>>, <<960, 1, 1170, 0>>, <<960, 1, 1260, 1>>, <<960, 1, 1530, 0>>,
     <<960, 1, 1620, 0>>, <<1200, 0, 540, 1>>, <<1200, 0, 600, 0>>,
     <<1200, 0, 1260, 0>>, <<1200, 0, 1260, 1>>, <<1200, 0, 1290, 0>>,
     <<1200, 0, 1620, 0>>, <<1200, 0, 2400, 0>>, <<2280, 0, 540, 1>>,
     <<2280, 0, 1260, 1>>, <<2400, 0, 540, 1>>, <<2400, 0, 990, 0>>,
     <<2400, 0, 1020, -1>>, <<2400, 0, 1050, 1>>, <<2400, 0, 1080, 0>>,
     <<2400, 0, 1080, 1>>, <<2400, 0, 1260, 1>>, <<2640, 0, 780, 0>>,
     <<2640, 0, 1530, 0>>, <<3000, 0, 1170, 0>>, <<3360, 0, 780, 0>>,
     <<3360, 0, 810, -1>>, <<3360, 0, 840, -1>>, <<3360, 0, 870, 0>>,
     <<3360, 0, 900, 0>>, <<3360, 0, 930, -1>>, <<3360, 0, 960, 0>>,
     <<3360, 0, 990, 0>>, <<3360, 0, 1050, 1>>, <<3360, 0, 1080, 1>>,
     <<3360, 0, 1110, 0>>, <<3360, 0, 1170, 0>>, <<3360, 0, 1530, 0>>,
     <<3360, 0, 1560, -1>>, <<3360, 0, 1620, -1>>, <<3360, 0, 1620, 0>>,
     <<3360, 0, 1800, 0>>, <<3600, 1, 540, 1>>, <<3600, 1, 600, 0>>,
     <<3600, 1, 630, 0>>, <<3600, 1, 660, 0>>, <<3600, 1, 690, -1>>,
     <<3600, 1, 720, 0>>, <<3600, 1, 750, -1>>, <<3600, 1, 780, 0>>,
     <<3600, 1, 810, -1>>, <<3600, 1, 840, -1>>, <<3600, 1, 870, 0>>,
     <<3600, 1, 900, 0>>, <<3600, 1, 930, -1>>, <<3600, 1, 960, 0>>,
     <<3600, 1, 990, 0>>, <<3600, 1, 1050, 1>>, <<3600, 1, 1080, 1>>,
     <<3600, 1, 1110, 0>>, <<3600, 1, 1170, 0>>, <<3600, 1, 1290, 0>>,
     <<3600, 1, 1320, -1>>, <<3600, 1, 1350, -1>>, <<3600, 1, 1380, -1>>,
     <<3600, 1, 1440, -1>>, <<3600, 1, 1530, 0>>, <<3600, 1, 1560, -1>>,
     <<3600, 1, 1620, -1>>, <<3600, 1, 1620, 0>>, <<3600, 1, 1800, 0>>}

SumRoundedDown ==
    {<<600, 0, 750, -1>>, <<600, 0, 1320, -1>>, <<600, 0, 1350, -1>>,
     <<600, 0, 1380, -1>>, <<600, 0, 1440, -1>>, <<1200, 0, 810, -1>>,
     <<1200, 0, 840, -1>>, <<1200, 0, 1440, -1>>, <<1200, 0, 1560, -1>>,
     <<1680, -1, 630, 0>>, <<1680, -1, 660, 0>>, <<1680, -1, 690, -1>>,
     <<1680, -1, 720, 0>>, <<1680, -1, 750, -1>>, <<1680, -1, 810, -1>>,
     <<1680, -1, 840, -1>>, <<1680, -1, 870, 0>>, <<1680, -1, 900, 0>>,
     <<1680, -1, 930, -1>>, <<1680, -1, 960, 0>>, <<1680, -1, 990, 0>>,
     <<1680, -1, 1020, -1>>, <<1680, -1, 1050, 1>>, <<1680, -1, 1080, 0>>,
     <<1680, -1, 1080, 1>>, <<1680, -1, 1110, 0>>, <<1680, -1, 1320, -1>>,
     <<1680, -1, 1350, -1>>, <<1680, -1, 1440, -1>>, <<1680, -1, 1530, 0>>,
     <<1680, -1, 1560, -1>>, <<1680, -1, 1620, -1>>, <<2280, 0, 930, -1>>,
     <<2280, 0, 1560, -1>>, <<2280, 0, 1620, -1>>, <<2280, 0, 1800, 0>>,
     <<2400, 0, 930, -1>>, <<2400, 0, 1560, -1>>, <<2400, 0, 1620, -1>>,
     <<2640, 0, 690, -1>>, <<2640, 0, 1320, -1>>, <<2640, 0, 1380, -1>>,
     <<2640, 0, 1440, -1>>, <<2880, 0, 1020, -1>>, <<2880, 0, 1080, 0>>,
     <<2880, 0, 1140, -1>>, <<2880, 0, 1200, -1>>, <<3000, 0, 1020, -1>>,
     <<3000, 0, 1080, 0>>}

Deviation(k, up, down) == IF k \in up THEN 1 ELSE IF k \in down THEN -1 ELSE 0

\* confianca * weight, the weight in tenths
FMul(a, w) ==
    IF a.n = 0 THEN Dec(0)
    ELSE Fl((a.n * w) \div 10, Deviation(<<a.n, a.e, w>>, ProductRoundedUp, ProductRoundedDown))

\* a + b
FAdd(a, b) ==
    IF a.n = 0 THEN b
    ELSE IF b.n = 0 THEN a
    ELSE Fl(a.n + b.n, Deviation(<<a.n, a.e, b.n, b.e>>, SumRoundedUp, SumRoundedDown))

\* round(a, 3): the double nearest to the three-decimal value nearest to a
FRound3(a) ==
    LET r == a.n % 6
    IN  IF r < 3 \/ (r = 3 /\ a.e < 0) THEN Dec(a.n - r) ELSE Dec(a.n - r + 6)

-----------------------------------------------------------------------------
(* AIAnalyzer.__init__: the static tables *)

\* The knowledge base with 'gaveta' declared before 'gaveteiro'.
tipos_gaveta_antes ==
    <<"armario", "despenseiro", "balcao", "gaveta", "gaveteiro", "prateleira", "porta">>

\* Declaration (dict insertion) order of the knowledge base.
TiposConhecidos ==
    <<"armario", "despenseiro", "balcao", "gaveteiro", "prateleira", "porta", "gaveta">>

\* dimensoes_tipicas in mm; proporcoes in hundredths; area_tipica in
\* thousandths of m2; volume_tipico in thousandths of m3.  The shelf entry is
\* keyed 'volume_tipica' in the source.
build_knowledge_base ==
    [armario |->
        [dimensoes_tipicas |-> [largura |-> <<400, 1200>>, altura |-> <<600, 2400>>,
                                profundidade |-> <<300, 600>>],
         proporcoes |-> [altura_largura |-> <<50, 400>>, profundidade_largura |-> <<25, 150>>],
         area_tipica |-> <<500, 8000>>,
         volume_tipico |-> <<100, 3000>>,
         keywords |-> <<"armario", "cabinet", "wardrobe", "closet", "guarda">>],
     despenseiro |->
        [dimensoes_tipicas |-> [largura |-> <<300, 1000>>, altura |-> <<1800, 2600>>,
                                profundidade |-> <<300, 600>>],
         proporcoes |-> [altura_largura |-> <<180, 800>>, profundidade_largura |-> <<30, 200>>],
         area_tipica |-> <<1000, 6000>>,
         volume_tipico |-> <<500, 4000>>,
         keywords |-> <<"despenseiro", "pantry", "tall", "alto", "coluna">>],
     balcao |->
        [dimensoes_tipicas |-> [largura |-> <<300, 1200>>, altura |-> <<700, 900>>,
                                profundidade |-> <<400, 700>>],
         proporcoes |-> [altura_largura |-> <<30, 200>>, profundidade_largura |-> <<50, 200>>],
         area_tipica |-> <<300, 3000>>,
         volume_tipico |-> <<200, 2000>>,
         keywords |-> <<"balcao", "counter", "base", "inferior", "bancada">>],
     gaveteiro |->
        [dimensoes_tipicas |-> [largura |-> <<300, 800>>, altura |-> <<200, 800>>,
                                profundidade |-> <<300, 600>>],
         proporcoes |-> [altura_largura |-> <<25, 200>>, profundidade_largura |-> <<50, 200>>],
         area_tipica |-> <<200, 2000>>,
         volume_tipico |-> <<100, 1000>>,
         keywords |-> <<"gaveteiro", "drawer", "gaveta", "chest">>],
     prateleira |->
        [dimensoes_tipicas |-> [largura |-> <<200, 1200>>, altura |-> <<15, 50>>,
                                profundidade |-> <<200, 600>>],
         proporcoes |-> [altura_largura |-> <<1, 25>>, profundidade_largura |-> <<20, 300>>],
         area_tipica |-> <<100, 2000>>,
         volume_tipica |-> <<10, 100>>,
         keywords |-> <<"prateleira", "shelf", "estante", "divider">>],
     porta |->
        [dimensoes_tipicas |-> [largura |-> <<300, 800>>, altura |-> <<400, 2000>>,
                                profundidade |-> <<15, 25>>],
         proporcoes |-> [altura_largura |-> <<100, 600>>, profundidade_largura |-> <<2, 10>>],
         area_tipica |-> <<200, 1500>>,
         volume_tipico |-> <<5, 50>>,
         keywords |-> <<"porta", "door", "folha", "leaf">>],
     gaveta |->
        [dimensoes_tipicas |-> [largura |-> <<200, 800>>, altura |-> <<80, 300>>,
                                profundidade |-> <<300, 600>>],
         proporcoes |-> [altura_largura |-> <<10, 150>>, profundidade_largura |-> <<50, 300>>],
         area_tipica |-> <<100, 1500>>,
         volume_tipico |-> <<50, 500>>,
         keywords |-> <<"gaveta", "drawer", "box", "caixa">>]]

build_keywords ==
    [marcenaria |->
        <<"armario", "cabinet", "wardrobe", "closet", "guarda",
          "despenseiro", "pantry", "coluna", "torre",
          "balcao", "counter", "base", "inferior",
          "gaveteiro", "drawer", "gaveta", "chest",
          "prateleira", "shelf", "estante",
          "porta", "door", "folha",
          "movel", "furniture", "mobile">>,
     nao_marcenaria |->
        <<"wall", "parede", "muro",
          "floor", "piso", "chao",
          "ceiling", "teto", "laje",
          "window", "janela", "vidro",
          "door_frame", "batente", "marco",
          "pipe", "tubo", "cano",
          "wire", "fio", "cabo",
          "light", "luz", "lampada",
          "outlet", "tomada", "interruptor">>,
     eletrodomesticos |->
        <<"geladeira", "refrigerator", "fridge",
          "fogao", "stove", "cooktop",
          "microondas", "microwave",
          "lava", "dishwasher", "washing",
          "forno", "oven">>]

\* The pattern table with 'armario' as the first candidate of 'muito_alto'.
padroes_armario_primeiro ==
    <<[pattern |-> "muito_plano",      tipos_possiveis |-> <<"prateleira", "porta", "tampo">>],
      [pattern |-> "muito_alto",       tipos_possiveis |-> <<"armario", "despenseiro">>],
      [pattern |-> "altura_bancada",   tipos_possiveis |-> <<"balcao", "gaveteiro">>],
      [pattern |-> "muito_baixo",      tipos_possiveis |-> <<"gaveta", "prateleira", "rodape">>],
      [pattern |-> "proporcao_gaveta", tipos_possiveis |-> <<"gaveta", "gaveteiro">>]>>

\* The pattern table with 'muito_plano' declared last instead of first.
padroes_plano_por_ultimo ==
    <<[pattern |-> "muito_alto",       tipos_possiveis |-> <<"despenseiro", "armario">>],
      [pattern |-> "altura_bancada",   tipos_possiveis |-> <<"balcao", "gaveteiro">>],
      [pattern |-> "muito_baixo",      tipos_possiveis |-> <<"gaveta", "prateleira", "rodape">>],
      [pattern |-> "proporcao_gaveta", tipos_possiveis |-> <<"gaveta", "gaveteiro">>],
      [pattern |-> "muito_plano",      tipos_possiveis |-> <<"prateleira", "porta", "tampo">>]>>

\* The patterns in declaration order; each 'condicao' lambda is the branch
\* of condicao(pattern, dims) below with the same name.
build_geometric_patterns ==
    <<[pattern |-> "muito_plano",      tipos_possiveis |-> <<"prateleira", "porta", "tampo">>],
      [pattern |-> "muito_alto",       tipos_possiveis |-> <<"despenseiro", "armario">>],
      [pattern |-> "altura_bancada",   tipos_possiveis |-> <<"balcao", "gaveteiro">>],
      [pattern |-> "muito_baixo",      tipos_possiveis |-> <<"gaveta", "prateleira", "rodape">>],
      [pattern |-> "proporcao_gaveta", tipos_possiveis |-> <<"gaveta", "gaveteiro">>]>>

\* min(dims)/max(dims) < 0.05 is 20*min < max: both sides of the source
\* comparison are one correct rounding of the real values compared here.
condicao(pattern, dims) ==
    CASE pattern = "muito_plano"      -> 20 * MinOf(Range(dims)) < MaxOf(Range(dims))
      [] pattern = "muito_alto"       -> dims[2] > 1800
      [] pattern = "altura_bancada"   -> 700 <= dims[2] /\ dims[2] <= 900
      [] pattern = "muito_baixo"      -> dims[2] < 400
      [] pattern = "proporcao_gaveta" -> dims[3] > dims[2] /\ dims[1] > dims[2]

\* The rule set with no lower bound on the density.
regras_sem_densidade_minima ==
    [dimensao_maxima |-> 5000,
     dimensao_minima |-> 10,
     area_maxima |-> 25000,
     area_minima |-> 10,
     volume_maximo |-> 10000,
     volume_minimo |-> 1,
     proporcao_maxima |-> 100,
     densidade_minima |-> 0,
     densidade_maxima |-> 20]

\* Dimensions in mm, areas in thousandths of m2, volumes in thousandths of
\* m3, the proportion as a plain ratio, densities (m3/m2) in tenths.
build_validation_rules ==
    [dimensao_maxima |-> 5000,
     dimensao_minima |-> 10,
     area_maxima |-> 25000,
     area_minima |-> 10,
     volume_maximo |-> 10000,
     volume_minimo |-> 1,
     proporcao_maxima |-> 100,
     densidade_minima |-> 1,
     densidade_maxima |-> 20]

\* The weights with those of the semantic and geometric analyses exchanged.
pesos_semantica_dominante ==
    [geometric |-> 2, dimensional |-> 3, semantic |-> 4, structural |-> 1]

\* The weights in tenths.
build_confidence_weights ==
    [geometric |-> 4, dimensional |-> 3, semantic |-> 2, structural |-> 1]


-----------------------------------------------------------------------------
(* _convert_to_analysis_structure *)

\* An exception raised inside analyze_component's try block.
Raise(msg) == [exc |-> msg]
Raised(r) == "exc" \in DOMAIN r

\* np.min / np.max of the vertex array along axis 0, and their difference.
bounding_box(vertices) ==
    [i \in 1..Len(vertices[1]) |->
        MaxOf({vertices[k][i] : k \in 1..Len(vertices)})
      - MinOf({vertices[k][i] : k \in 1..Len(vertices)})]

\* np.mean(vertices_array, axis=0), kept as the column sums and the count.
RECURSIVE SumColumn(_, _, _)
SumColumn(vertices, i, k) ==
    IF k = 0 THEN 0 ELSE vertices[k][i] + SumColumn(vertices, i, k - 1)

mean_vertices(vertices) ==
    [soma |-> [i \in 1..Len(vertices[1]) |-> SumColumn(vertices, i, Len(vertices))],
     n |-> Len(vertices)]

\* (d0 * d1 * d2) / 1000000000, in cells of 125 mm^3 (8000 cells are a
\* thousandth of a cubic metre); the dimensions are on the 5 mm grid.
volume_of(dimensoes) ==
    (dimensoes[1] \div 5) * (dimensoes[2] \div 5) * (dimensoes[3] \div 5)

\* The conversion preferring a supplied 'dimensoes' to the vertices.
convert_preferindo_dimensoes(componente) ==
    IF componente = PyNone
    THEN Raise("'NoneType' object has no attribute 'get'")
    ELSE
    LET vertices == Get(componente, "vertices", <<>>)
        com_vertices == Len(vertices) > 0
        irregular == com_vertices
                     /\ \E k \in 1..Len(vertices) : Len(vertices[k]) # Len(vertices[1])
        dimensoes == IF "dimensoes" \in DOMAIN componente
                     THEN componente.dimensoes
                     ELSE IF com_vertices THEN bounding_box(vertices)
                     ELSE <<100, 100, 100>>
        centro_massa == IF com_vertices
                        THEN mean_vertices(vertices)
                        ELSE [soma |-> <<0, 0, 0>>, n |-> 1]
    IN  IF irregular
        THEN Raise("inhomogeneous vertex array")
        ELSE IF Len(dimensoes) < 3
        THEN Raise("tuple index out of range")
        ELSE [nome |-> Get(componente, "nome", PyStr("Componente")),
              area_m2 |-> Get(componente, "area_m2", PyNum(0)),
              volume_m3 |-> volume_of(dimensoes),
              dimensoes |-> dimensoes,
              vertices |-> vertices,
              faces |-> Get(componente, "faces", PyList(<<>>)),
              centro_massa |-> centro_massa]

convert_to_analysis_structure(componente) ==
    IF componente = PyNone
    THEN Raise("'NoneType' object has no attribute 'get'")
    ELSE
    LET vertices == Get(componente, "vertices", <<>>)
        com_vertices == Len(vertices) > 0
        irregular == com_vertices
                     /\ \E k \in 1..Len(vertices) : Len(vertices[k]) # Len(vertices[1])
        dimensoes == IF com_vertices
                     THEN bounding_box(vertices)
                     ELSE Get(componente, "dimensoes", <<100, 100, 100>>)
        centro_massa == IF com_vertices
                        THEN mean_vertices(vertices)
                        ELSE [soma |-> <<0, 0, 0>>, n |-> 1]
    IN  IF irregular
        THEN Raise("inhomogeneous vertex array")
        ELSE IF Len(dimensoes) < 3
        THEN Raise("tuple index out of range")
        ELSE [nome |-> Get(componente, "nome", PyStr("Componente")),
              area_m2 |-> Get(componente, "area_m2", PyNum(0)),
              volume_m3 |-> volume_of(dimensoes),
              dimensoes |-> dimensoes,
              vertices |-> vertices,
              faces |-> Get(componente, "faces", PyList(<<>>)),
              centro_massa |-> centro_massa]

-----------------------------------------------------------------------------
(* _validate_component *)

Invalid(texto, valor, suggestions) ==
    [is_valid |-> FALSE,
     reason |-> Motivo(texto, valor),
     suggestions |-> suggestions]

\* Areas (thousandths of m2; the multiples of 0.01 up to 1 m2 and of 0.1 up
\* to 26 m2) for which volume_m3 / area_m2, evaluated in binary64 on a
\* volume of exactly a tenth of the area, ends below the double 0.1.  At
\* twice the area the quotient is the double 2.0 for every such area.
DensityRoundedDown ==
    {50, 70, 90, 100, 110, 130, 140, 180, 190, 200, 220, 230, 260, 270, 280, 360, 370,
     380, 390, 400, 430, 440, 450, 460, 510, 520, 530, 540, 550, 560, 710, 720, 730,
     740, 750, 760, 770, 780, 790, 800, 810, 860, 870, 880, 890, 900, 910, 920, 930,
     1100, 1500, 1600, 1800, 2100, 2200, 2900, 3000, 3100, 3200, 3500, 3600, 3700,
     4200, 4400, 4700, 4900, 5700, 5800, 5900, 6000, 6200, 6400, 6900, 7000, 7200,
     7400, 8300, 8400, 8500, 8800, 8900, 9300, 9400, 9500, 9800, 9900, 10300, 11300,
     11400, 11500, 11600, 11800, 11900, 12000, 12300, 12400, 12800, 13800, 13900,
     14000, 14100, 14300, 14400, 14500, 14800, 14900, 15300, 16100, 16300, 16500,
     16600, 16800, 17000, 17100, 17300, 17600, 17800, 18100, 18600, 18800, 19000,
     19100, 19300, 19500, 19600, 19800, 20100, 20300, 20500, 20600, 20700, 21100,
     21300, 21500, 22100, 22300, 22600, 22800, 23000, 23100, 23200, 23600, 23800,
     24000, 24600, 24800, 25100, 25300, 25500, 25600, 25700}

\* densidade = volume_m3 / area_m2 against a bound given in tenths:
\* cells * 1.25e-7 / (area * 1e-3) < bound / 10  iff  cells < 800 * bound * area,
\* except that at equality the rounding of the quotient decides.
densidade_abaixo(comp, bound) ==
    \/ comp.volume_m3 < 800 * bound * comp.area_m2.v
    \/ /\ comp.volume_m3 = 800 * bound * comp.area_m2.v
       /\ bound = 1
       /\ comp.area_m2.v \in DensityRoundedDown
densidade_acima(comp, bound) == comp.volume_m3 > 800 * bound * comp.area_m2.v

\* The validator testing the proportion before the area.
validate_component_proporcao_antes(comp) ==
    LET rules == validation_rules
        max_dim == MaxOf(Range(comp.dimensoes))
        min_dim == MinOf(Range(comp.dimensoes))
    IN  IF max_dim > rules.dimensao_maxima
        THEN Invalid("Dimensao muito grande", <<max_dim>>,
                     <<"Verificar escala do arquivo", "Pode ser elemento estrutural">>)
        ELSE IF min_dim < rules.dimensao_minima
        THEN Invalid("Dimensao muito pequena", <<min_dim>>,
                     <<"Verificar se nao e detalhe", "Pode ser ruido na geometria">>)
        ELSE IF max_dim > rules.proporcao_maxima * min_dim
        THEN Invalid("Proporcao muito extrema", <<max_dim, min_dim>>,
                     <<"Pode ser elemento linear", "Verificar geometria">>)
        ELSE IF comp.area_m2 = PyNone
        THEN Raise("'>' not supported between instances of 'NoneType' and 'float'")
        ELSE IF comp.area_m2.v > rules.area_maxima
        THEN Invalid("Area muito grande", <<comp.area_m2.v>>,
                     <<"Provavelmente parede ou piso", "Filtrar elementos estruturais">>)
        ELSE IF comp.area_m2.v < rules.area_minima
        THEN Invalid("Area muito pequena", <<comp.area_m2.v>>,
                     <<"Pode ser acessorio", "Verificar relevancia">>)
        ELSE IF comp.area_m2.v > 0 /\ densidade_abaixo(comp, rules.densidade_minima)
        THEN Invalid("Densidade muito baixa", <<comp.volume_m3, comp.area_m2.v>>,
                     <<"Pode ser elemento muito fino", "Verificar calculo de volume">>)
        ELSE IF comp.area_m2.v > 0 /\ densidade_acima(comp, rules.densidade_maxima)
        THEN Invalid("Densidade muito alta", <<comp.volume_m3, comp.area_m2.v>>,
                     <<"Pode ser elemento muito espesso", "Verificar geometria">>)
        ELSE [is_valid |-> TRUE,
              reason |-> Motivo("Componente valido", <<>>),
              suggestions |-> <<>>]

validate_component(comp) ==
    LET rules == validation_rules
        max_dim == MaxOf(Range(comp.dimensoes))
        min_dim == MinOf(Range(comp.dimensoes))
    IN  IF max_dim > rules.dimensao_maxima
        THEN Invalid("Dimensao muito grande", <<max_dim>>,
                     <<"Verificar escala do arquivo", "Pode ser elemento estrutural">>)
        ELSE IF min_dim < rules.dimensao_minima
        THEN Invalid("Dimensao muito pequena", <<min_dim>>,
                     <<"Verificar se nao e detalhe", "Pode ser ruido na geometria">>)
        ELSE IF comp.area_m2 = PyNone
        THEN Raise("'>' not supported between instances of 'NoneType' and 'float'")
        ELSE IF comp.area_m2.v > rules.area_maxima
        THEN Invalid("Area muito grande", <<comp.area_m2.v>>,
                     <<"Provavelmente parede ou piso", "Filtrar elementos estruturais">>)
        ELSE IF comp.area_m2.v < rules.area_minima
        THEN Invalid("Area muito pequena", <<comp.area_m2.v>>,
                     <<"Pode ser acessorio", "Verificar relevancia">>)
        ELSE IF max_dim > rules.proporcao_maxima * min_dim
        THEN Invalid("Proporcao muito extrema", <<max_dim, min_dim>>,
                     <<"Pode ser elemento linear", "Verificar geometria">>)
        ELSE IF comp.area_m2.v > 0 /\ densidade_abaixo(comp, rules.densidade_minima)
        THEN Invalid("Densidade muito baixa", <<comp.volume_m3, comp.area_m2.v>>,
                     <<"Pode ser elemento muito fino", "Verificar calculo de volume">>)
        ELSE IF comp.area_m2.v > 0 /\ densidade_acima(comp, rules.densidade_maxima)
        THEN Invalid("Densidade muito alta", <<comp.volume_m3, comp.area_m2.v>>,
                     <<"Pode ser elemento muito espesso", "Verificar geometria">>)
        ELSE [is_valid |-> TRUE,
              reason |-> Motivo("Componente valido", <<>>),
              suggestions |-> <<>>]


-----------------------------------------------------------------------------
(* _analyze_semantic *)

\* A string as the sequence of its one-character strings.
letras(str) == SubSeq([i \in 1..Len(str) |-> SubSeq(str, i, i)], 1, Len(str))

Maiusculas == letras("ABCDEFGHIJKLMNOPQRSTUVWXYZ")
Minusculas == letras("abcdefghijklmnopqrstuvwxyz")

\* str.lower() on one character.
lower_char(c) ==
    IF \E i \in 1..Len(Maiusculas) : Maiusculas[i] = c
    THEN LET i == CHOOSE j \in 1..Len(Maiusculas) : Maiusculas[j] = c
         IN  Minusculas[i]
    ELSE c

\* The contiguous stretches of a sequence of characters (the empty one too).
trechos(caracteres) ==
    {SubSeq(caracteres, i, j) : i \in 1..Len(caracteres), j \in 1..Len(caracteres)}

\* str.lower(): every character lower-cased, in order.  The lower-cased
\* string is only ever the right-hand side of `in`, and is held as the set
\* of its stretches.
lower(str) == trechos([i \in 1..Len(str) |-> lower_char(SubSeq(str, i, i))])

\* Every keyword of the keyword banks and of the knowledge base.
PalavrasChave ==
    UNION {{build_keywords[c][k] : k \in 1..Len(build_keywords[c])} :
              c \in DOMAIN build_keywords}
    \cup
    UNION {{build_knowledge_base[t].keywords[k] :
               k \in 1..Len(build_knowledge_base[t].keywords)} :
              t \in DOMAIN build_knowledge_base}

letras_da_palavra[palavra \in PalavrasChave] == letras(palavra)

\* keyword in nome_lower
contains(keyword, nome_lower) == letras_da_palavra[keyword] \in nome_lower

\* any(keyword in nome_lower for keyword in lista)
any_keyword(lista, nome_lower) ==
    \E k \in 1..Len(lista) : contains(lista[k], nome_lower)

\* _analyze_semantic from nome_lower on.
classificar_nome(nome_lower) ==
    LET is_marcenaria == any_keyword(keywords.marcenaria, nome_lower)
        is_nao_marcenaria == any_keyword(keywords.nao_marcenaria, nome_lower)
        is_eletrodomestico == any_keyword(keywords.eletrodomesticos, nome_lower)
        especificos == {k \in 1..Len(TiposConhecidos) :
                           any_keyword(knowledge_base[TiposConhecidos[k]].keywords, nome_lower)}
    IN  IF is_nao_marcenaria \/ is_eletrodomestico
        THEN [tipo |-> "nao_marcenaria", confianca |-> Dec(5400),
              motivo |-> Motivo("Nome indica elemento nao-marcenaria", <<>>)]
        ELSE IF especificos # {}
        THEN LET tipo == TiposConhecidos[MinOf(especificos)]
             IN  [tipo |-> tipo, confianca |-> Dec(4800),
                  motivo |-> Motivo("Nome indica " \o tipo, <<>>)]
        ELSE IF is_marcenaria
        THEN [tipo |-> "armario", confianca |-> Dec(3000),
              motivo |-> Motivo("Nome indica marcenaria generica", <<>>)]
        ELSE [tipo |-> "indefinido", confianca |-> Dec(600),
              motivo |-> Motivo("Nome nao conclusivo", <<>>)]

\* A semantic analyzer in which a tall box overrides what the name says.
analyze_semantic_pela_altura(comp) ==
    IF comp.nome = PyNone
    THEN Raise("'NoneType' object has no attribute 'lower'")
    ELSE IF comp.dimensoes[2] > 1800
    THEN classificar_nome(lower("despenseiro"))
    ELSE classificar_nome(lower(comp.nome.v))

analyze_semantic(comp) ==
    IF comp.nome = PyNone
    THEN Raise("'NoneType' object has no attribute 'lower'")
    ELSE classificar_nome(lower(comp.nome.v))

-----------------------------------------------------------------------------
(* _analyze_geometry *)

\* The last candidate of the pattern instead of the first.
ultimo_tipo(tipos_possiveis) == tipos_possiveis[Len(tipos_possiveis)]

\* best_match['tipos_possiveis'][0]
primeiro_tipo(tipos_possiveis) == tipos_possiveis[1]

\* The last of the matching patterns.
ultimo_padrao(matches) == matches[Len(matches)]

\* best_match = matches[0]
melhor_padrao(matches) == matches[1]

analyze_geometry(comp) ==
    LET matches == SelectSeq(geometric_patterns,
                             LAMBDA p : condicao(p.pattern, comp.dimensoes))
    IN  IF Len(matches) > 0
        THEN LET best_match == melhor_padrao(matches)
             IN  [tipo |-> primeiro_tipo(best_match.tipos_possiveis),
                  confianca |-> Dec(4200),
                  motivo |-> Motivo("Padrao geometrico: " \o best_match.pattern, <<>>),
                  alternativas |->
                      IF Len(best_match.tipos_possiveis) > 1
                      THEN Tail(best_match.tipos_possiveis)
                      ELSE <<>>]
        ELSE [tipo |-> "indefinido", confianca |-> Dec(1200),
              motivo |-> Motivo("Nenhum padrao geometrico identificado", <<>>)]


-----------------------------------------------------------------------------
(* _analyze_dimensions *)

\* ", ".join(reasons) and '; '.join(reasons)
RECURSIVE join(_, _)
join(sep, partes) ==
    IF Len(partes) = 0 THEN ""
    ELSE IF Len(partes) = 1 THEN partes[1]
    ELSE partes[1] \o sep \o join(sep, Tail(partes))

\* range[0] <= num/den <= range[1], the range in hundredths
ratio_in_range(num, den, range) ==
    range[1] * den <= 100 * num /\ 100 * num <= range[2] * den

\* The body of the loop over the knowledge base, for one type.
score_tipo(comp, tipo) ==
    LET info == knowledge_base[tipo]
        dims == comp.dimensoes
        dim_names == <<"largura", "altura", "profundidade">>
        dim_hit(i) == info.dimensoes_tipicas[dim_names[i]][1] <= dims[i]
                      /\ dims[i] <= info.dimensoes_tipicas[dim_names[i]][2]
        dims_score == Cardinality({i \in 1..3 : dim_hit(i)})
        \* altura_largura and prof_largura: 0 when the width is not positive
        al_num == IF dims[1] > 0 THEN dims[2] ELSE 0
        pl_num == IF dims[1] > 0 THEN dims[3] ELSE 0
        den == IF dims[1] > 0 THEN dims[1] ELSE 1
        al_hit == ratio_in_range(al_num, den, info.proporcoes.altura_largura)
        pl_hit == ratio_in_range(pl_num, den, info.proporcoes.profundidade_largura)
        prop_score == (IF al_hit THEN 1 ELSE 0) + (IF pl_hit THEN 1 ELSE 0)
        area_hit == info.area_tipica[1] <= comp.area_m2.v
                    /\ comp.area_m2.v <= info.area_tipica[2]
        vol_hit == "volume_tipico" \in DOMAIN info
                   /\ info.volume_tipico[1] * 8000 <= comp.volume_m3
                   /\ comp.volume_m3 <= info.volume_tipico[2] * 8000
        a == IF area_hit THEN 1 ELSE 0
        v == IF vol_hit THEN 1 ELSE 0
        reasons == (IF dim_hit(1) THEN <<"largura tipica">> ELSE <<>>)
                   \o (IF dim_hit(2) THEN <<"altura tipica">> ELSE <<>>)
                   \o (IF dim_hit(3) THEN <<"profundidade tipica">> ELSE <<>>)
                   \o (IF al_hit THEN <<"proporcao altura/largura tipica">> ELSE <<>>)
                   \o (IF pl_hit THEN <<"proporcao profundidade/largura tipica">> ELSE <<>>)
                   \o (IF area_hit THEN <<"area tipica">> ELSE <<>>)
                   \o (IF vol_hit THEN <<"volume tipico">> ELSE <<>>)
    IN  [tipo |-> tipo,
         score |-> Fl(800 * dims_score + 900 * prop_score + 1200 * a + 600 * v,
                      Deviation(<<dims_score, prop_score, a, v>>,
                                ScoreRoundedUp, ScoreRoundedDown)),
         reasons |-> reasons]

\* list.sort(key=score, reverse=True): stable, equal scores keep their order.
RECURSIVE sort_by_score(_)
sort_by_score(matches) ==
    IF Len(matches) = 0 THEN <<>>
    ELSE LET i == CHOOSE j \in 1..Len(matches) :
                      /\ \A k \in 1..Len(matches) : FLe(matches[k].score, matches[j].score)
                      /\ \A k \in 1..(j - 1) : FLt(matches[k].score, matches[j].score)
         IN  <<matches[i]>>
             \o sort_by_score(SubSeq(matches, 1, i - 1) \o SubSeq(matches, i + 1, Len(matches)))

\* seq[lo:hi] of Python, lo and hi zero-based
slice(seq, lo, hi) == SubSeq(seq, lo + 1, Min2(hi, Len(seq)))

analyze_dimensions(comp) ==
    LET todos == [k \in 1..Len(TiposConhecidos) |-> score_tipo(comp, TiposConhecidos[k])]
        best_matches == sort_by_score(SelectSeq(todos, LAMBDA m : FLt(Dec(1800), m.score)))
    IN  IF Len(best_matches) > 0
        THEN LET best == best_matches[1]
                 outros == slice(best_matches, 1, 3)
             IN  [tipo |-> best.tipo,
                  confianca |-> FMin(best.score, Dec(5400)),
                  motivo |-> Motivo("Dimensoes compativeis: " \o join(", ", best.reasons), <<>>),
                  alternativas |-> [k \in 1..Len(outros) |-> outros[k].tipo]]
        ELSE [tipo |-> "indefinido", confianca |-> Dec(600),
              motivo |-> Motivo("Dimensoes nao compativeis com tipos conhecidos", <<>>)]

-----------------------------------------------------------------------------
(* _analyze_structure *)

analyze_structure(comp) ==
    IF comp.faces = PyNone
    THEN Raise("object of type 'NoneType' has no len()")
    ELSE
    LET num_vertices == Len(comp.vertices)
        num_faces == Len(comp.faces.v)
        \* complexidade = num_faces / num_vertices, 0 without vertices
        num == IF num_vertices > 0 THEN num_faces ELSE 0
        den == IF num_vertices > 0 THEN num_vertices ELSE 1
    IN  IF num > 3 * den
        THEN [tipo |-> "complexo", confianca |-> Dec(3600),
              motivo |-> Motivo("Geometria complexa", <<num_faces, num_vertices>>)]
        ELSE IF 2 * num > 3 * den
        THEN [tipo |-> "medio", confianca |-> Dec(3000),
              motivo |-> Motivo("Geometria media", <<num_faces, num_vertices>>)]
        ELSE [tipo |-> "simples", confianca |-> Dec(2400),
              motivo |-> Motivo("Geometria simples", <<num_faces, num_vertices>>)]


-----------------------------------------------------------------------------
(* _combine_analyses *)

NaoCandidatos == {"indefinido", "nao_marcenaria", "invalido", "erro"}

\* The voting analyses, in the order the loop visits them.
Votantes == <<"semantic", "geometric", "dimensional">>

\* candidates[tipo] after the loop: the per-analysis products, the reasons
\* and the running total, accumulated in the order of the analyses.
RECURSIVE acumular(_, _, _)
acumular(tipo, votos, k) ==
    IF k = 0
    THEN [scores |-> <<>>, reasons |-> <<>>, total_score |-> Dec(0)]
    ELSE LET antes == acumular(tipo, votos, k - 1)
             analysis == votos[k]
             weight == Get(confidence_weights, Votantes[k], 1)
             score == FMul(analysis.confianca, weight)
         IN  IF analysis.tipo # tipo THEN antes
             ELSE [scores |-> Append(antes.scores, <<Votantes[k], score>>),
                   reasons |-> Append(antes.reasons,
                                      Votantes[k] \o ": " \o analysis.motivo.texto),
                   total_score |-> FAdd(antes.total_score, score)]

\* The keys of candidates in insertion order.
RECURSIVE ordem_candidatos(_, _)
ordem_candidatos(votos, k) ==
    IF k = 0 THEN <<>>
    ELSE LET antes == ordem_candidatos(votos, k - 1)
             tipo == votos[k].tipo
         IN  IF tipo \in NaoCandidatos \/ tipo \in Range(antes)
             THEN antes
             ELSE Append(antes, tipo)

\* A descending sort that puts the last of equal totals first.
RECURSIVE sort_ultimo_primeiro(_)
sort_ultimo_primeiro(cands) ==
    IF Len(cands) = 0 THEN <<>>
    ELSE LET i == CHOOSE j \in 1..Len(cands) :
                      /\ \A k \in 1..Len(cands) : FLe(cands[k].total_score, cands[j].total_score)
                      /\ \A k \in (j + 1)..Len(cands) :
                             FLt(cands[k].total_score, cands[j].total_score)
         IN  <<cands[i]>>
             \o sort_ultimo_primeiro(SubSeq(cands, 1, i - 1)
                                     \o SubSeq(cands, i + 1, Len(cands)))

\* sorted(candidates.items(), key=total_score, reverse=True): stable.
RECURSIVE sort_by_total(_)
sort_by_total(cands) ==
    IF Len(cands) = 0 THEN <<>>
    ELSE LET i == CHOOSE j \in 1..Len(cands) :
                      /\ \A k \in 1..Len(cands) : FLe(cands[k].total_score, cands[j].total_score)
                      /\ \A k \in 1..(j - 1) : FLt(cands[k].total_score, cands[j].total_score)
         IN  <<cands[i]>>
             \o sort_by_total(SubSeq(cands, 1, i - 1) \o SubSeq(cands, i + 1, Len(cands)))

\* The four raw analyses attached as detail.
detalhes_brutos(semantic, geometric, dimensional, structural) ==
    [semantic |-> semantic, geometric |-> geometric,
     dimensional |-> dimensional, structural |-> structural]

\* candidates.items(): one entry per candidate type, in insertion order.
candidatos(semantic, geometric, dimensional) ==
    LET votos == <<semantic, geometric, dimensional>>
        ordem == ordem_candidatos(votos, 3)
    IN  [k \in 1..Len(ordem) |-> [tipo |-> ordem[k]] @@ acumular(ordem[k], votos, 3)]

\* The non-woodwork branch reporting certainty instead of the semantic confidence.
classificacao_nao_marcenaria_certa(semantic, detalhes) ==
    [tipo_detectado |-> "nao_marcenaria",
     confianca |-> Dec(6000),
     motivo |-> semantic.motivo,
     sugestoes |-> <<"Filtrar este elemento", "Nao incluir no orcamento">>,
     detalhes |-> detalhes]

\* The return of the branch semantic['tipo'] == 'nao_marcenaria'.
classificacao_nao_marcenaria(semantic, detalhes) ==
    [tipo_detectado |-> "nao_marcenaria",
     confianca |-> semantic.confianca,
     motivo |-> semantic.motivo,
     sugestoes |-> <<"Filtrar este elemento", "Nao incluir no orcamento">>,
     detalhes |-> detalhes]

\* The return of the branch without candidates.
classificacao_indefinida(detalhes) ==
    [tipo_detectado |-> "indefinido",
     confianca |-> Dec(1200),
     motivo |-> Motivo("Nao foi possivel classificar com confianca", <<>>),
     sugestoes |-> <<"Verificar nome do objeto", "Verificar dimensoes",
                     "Classificar manualmente">>,
     detalhes |-> detalhes]

\* confianca_final = min(info_final['total_score'], 0.95)
confianca_final(total_score) == FMin(total_score, Dec(5700))

\* The last of the candidates with the highest total.
ultimo_maximo(candidates) ==
    CHOOSE j \in 1..Len(candidates) :
        /\ \A k \in 1..Len(candidates) :
               FLe(candidates[k].total_score, candidates[j].total_score)
        /\ \A k \in (j + 1)..Len(candidates) :
               FLt(candidates[k].total_score, candidates[j].total_score)

\* max(candidates.items(), key=total_score): the first maximum
best_candidate(candidates) ==
    CHOOSE j \in 1..Len(candidates) :
        /\ \A k \in 1..Len(candidates) :
               FLe(candidates[k].total_score, candidates[j].total_score)
        /\ \A k \in 1..(j - 1) :
               FLt(candidates[k].total_score, candidates[j].total_score)

\* The return of the branch with candidates.
classificacao_final(candidates, detalhes) ==
    LET info_final == candidates[best_candidate(candidates)]
        final == confianca_final(info_final.total_score)
        sugestoes ==
            (IF FLt(final, Dec(3000))
             THEN <<"Baixa confianca - verificar manualmente">> ELSE <<>>)
            \o (IF FLt(final, Dec(4200))
                THEN <<"Considerar classificacao alternativa">> ELSE <<>>)
        ordenados == sort_by_total(candidates)
        outros == slice(ordenados, 1, 3)
    IN  [tipo_detectado |-> info_final.tipo,
         confianca |-> FRound3(final),
         motivo |-> Motivo(join("; ", info_final.reasons), <<>>),
         sugestoes |-> sugestoes,
         alternativas |-> [k \in 1..Len(outros) |-> outros[k].tipo],
         detalhes |-> [scores_por_analise |-> info_final.scores] @@ detalhes]

\* The fusion without its non-woodwork branch.
combine_sem_atalho(semantic, geometric, dimensional, structural) ==
    LET candidates == candidatos(semantic, geometric, dimensional)
        detalhes == detalhes_brutos(semantic, geometric, dimensional, structural)
    IN  IF Len(candidates) = 0
        THEN classificacao_indefinida(detalhes)
        ELSE classificacao_final(candidates, detalhes)

\* The fusion with the structural analysis as a fourth voter of weight 0.1.
combine_com_voto_estrutural(semantic, geometric, dimensional, structural) ==
    LET voto == FMul(structural.confianca, confidence_weights.structural)
        candidates == Append(candidatos(semantic, geometric, dimensional),
                             [tipo |-> structural.tipo,
                              scores |-> <<<<"structural", voto>>>>,
                              reasons |-> <<"structural: " \o structural.motivo.texto>>,
                              total_score |-> voto])
        detalhes == detalhes_brutos(semantic, geometric, dimensional, structural)
    IN  IF semantic.tipo = "nao_marcenaria"
        THEN classificacao_nao_marcenaria(semantic, detalhes)
        ELSE classificacao_final(candidates, detalhes)

combine_analyses(semantic, geometric, dimensional, structural) ==
    LET candidates == candidatos(semantic, geometric, dimensional)
        detalhes == detalhes_brutos(semantic, geometric, dimensional, structural)
    IN  IF semantic.tipo = "nao_marcenaria"
        THEN classificacao_nao_marcenaria(semantic, detalhes)
        ELSE IF Len(candidates) = 0
        THEN classificacao_indefinida(detalhes)
        ELSE classificacao_final(candidates, detalhes)

-----------------------------------------------------------------------------
(* analyze_component *)

\* The except branch reporting the fault as an invalid component.
resultado_erro_como_invalido(msg) ==
    [tipo_detectado |-> "invalido",
     confianca |-> Dec(0),
     motivo |-> Motivo("Erro na analise: " \o msg, <<>>),
     sugestoes |-> <<"Verificar formato do arquivo", "Tentar novamente">>]

\* The except branch.
resultado_erro(msg) ==
    [tipo_detectado |-> "erro",
     confianca |-> Dec(0),
     motivo |-> Motivo("Erro na analise: " \o msg, <<>>),
     sugestoes |-> <<"Verificar formato do arquivo", "Tentar novamente">>]

resultado_invalido(validation_result) ==
    [tipo_detectado |-> "invalido",
     confianca |-> Dec(0),
     motivo |-> validation_result.reason,
     sugestoes |-> validation_result.suggestions]

\* analyze_component after the validity check: the four analyzers and the
\* fusion, with the methods run (chamadas continues the caller's log).
analisar_valido(comp_analise, chamadas_antes) ==
    LET semantic_analysis == analyze_semantic(comp_analise)
        geometric_analysis == analyze_geometry(comp_analise)
        dimensional_analysis == analyze_dimensions(comp_analise)
        structural_analysis == analyze_structure(comp_analise)
        c3 == Append(chamadas_antes, "_analyze_semantic")
        c6 == c3 \o <<"_analyze_geometry", "_analyze_dimensions", "_analyze_structure">>
    IN  IF Raised(semantic_analysis)
        THEN [resultado |-> resultado_erro(semantic_analysis.exc), chamadas |-> c3]
        ELSE IF Raised(structural_analysis)
        THEN [resultado |-> resultado_erro(structural_analysis.exc), chamadas |-> c6]
        ELSE [resultado |-> combine_analyses(semantic_analysis, geometric_analysis,
                                             dimensional_analysis, structural_analysis),
              chamadas |-> Append(c6, "_combine_analyses")]

\* analyze_component ignoring the validator's verdict.
run_component_sem_portao(componente) ==
    LET comp_analise == convert_to_analysis_structure(componente)
        validation_result == validate_component(comp_analise)
        c1 == <<"_convert_to_analysis_structure">>
        c2 == Append(c1, "_validate_component")
    IN  IF Raised(comp_analise)
        THEN [resultado |-> resultado_erro(comp_analise.exc), chamadas |-> c1]
        ELSE IF Raised(validation_result)
        THEN [resultado |-> resultado_erro(validation_result.exc), chamadas |-> c2]
        ELSE analisar_valido(comp_analise, c2)

\* analyze_component keeping the validator's last rejection: after a call
\* that ended in 'invalido' the next component is rejected with that verdict.
run_component_com_memoria(componente) ==
    LET comp_analise == convert_to_analysis_structure(componente)
        validation_result == validate_component(comp_analise)
        c1 == <<"_convert_to_analysis_structure">>
        c2 == Append(c1, "_validate_component")
    IN  IF Raised(comp_analise)
        THEN [resultado |-> resultado_erro(comp_analise.exc), chamadas |-> c1]
        ELSE IF "tipo_detectado" \in DOMAIN resultado /\ resultado.tipo_detectado = "invalido"
        THEN [resultado |-> resultado, chamadas |-> c2]
        ELSE IF Raised(validation_result)
        THEN [resultado |-> resultado_erro(validation_result.exc), chamadas |-> c2]
        ELSE IF ~validation_result.is_valid
        THEN [resultado |-> resultado_invalido(validation_result), chamadas |-> c2]
        ELSE analisar_valido(comp_analise, c2)

\* The body of analyze_component: what it returns and the methods it ran.
run_component(componente) ==
    LET comp_analise == convert_to_analysis_structure(componente)
        validation_result == validate_component(comp_analise)
        c1 == <<"_convert_to_analysis_structure">>
        c2 == Append(c1, "_validate_component")
    IN  IF Raised(comp_analise)
        THEN [resultado |-> resultado_erro(comp_analise.exc), chamadas |-> c1]
        ELSE IF Raised(validation_result)
        THEN [resultado |-> resultado_erro(validation_result.exc), chamadas |-> c2]
        ELSE IF ~validation_result.is_valid
        THEN [resultado |-> resultado_invalido(validation_result), chamadas |-> c2]
        ELSE analisar_valido(comp_analise, c2)

analyze_component(componente) == run_component(componente).resultado

-----------------------------------------------------------------------------
(* analyze_batch *)

\* The per-type count set to 1 whenever the type is seen.
contar_tipo_sem_somar(td, tipo) ==
    IF \E k \in 1..Len(td) : td[k].tipo = tipo
    THEN td
    ELSE Append(td, [tipo |-> tipo, n |-> 1])

\* tipos_detectados[tipo] += 1, the entry created at 0 when missing.  The
\* dict is kept in insertion order as a sequence of [tipo, n].
contar_tipo(td, tipo) ==
    IF \E k \in 1..Len(td) : td[k].tipo = tipo
    THEN [k \in 1..Len(td) |->
             IF td[k].tipo = tipo THEN [tipo |-> tipo, n |-> td[k].n + 1] ELSE td[k]]
    ELSE Append(td, [tipo |-> tipo, n |-> 1])

\* A loop body that stops counting once a non-woodwork result has been seen.
atualizar_ate_nao_marcenaria(estatisticas, res) ==
    LET tipo == res.tipo_detectado
    IN  IF tipo \in {"invalido", "erro"} \/ estatisticas.nao_marcenaria > 0
        THEN estatisticas
        ELSE IF tipo = "nao_marcenaria"
        THEN [estatisticas EXCEPT !.validos = @ + 1, !.nao_marcenaria = @ + 1]
        ELSE IF tipo = "indefinido"
        THEN [estatisticas EXCEPT !.validos = @ + 1, !.indefinidos = @ + 1]
        ELSE [estatisticas EXCEPT
                 !.validos = @ + 1,
                 !.marcenaria = @ + 1,
                 !.tipos_detectados = contar_tipo(@, tipo)]

\* One pass of the loop body over the statistics.
atualizar(estatisticas, res) ==
    LET tipo == res.tipo_detectado
    IN  IF tipo \in {"invalido", "erro"} THEN estatisticas
        ELSE IF tipo = "nao_marcenaria"
        THEN [estatisticas EXCEPT !.validos = @ + 1, !.nao_marcenaria = @ + 1]
        ELSE IF tipo = "indefinido"
        THEN [estatisticas EXCEPT !.validos = @ + 1, !.indefinidos = @ + 1]
        ELSE [estatisticas EXCEPT
                 !.validos = @ + 1,
                 !.marcenaria = @ + 1,
                 !.tipos_detectados = contar_tipo(@, tipo)]

RECURSIVE percorrer(_, _, _)
percorrer(estatisticas, resultados, k) ==
    IF k = 0 THEN estatisticas
    ELSE atualizar(percorrer(estatisticas, resultados, k - 1), resultados[k])

RECURSIVE soma_confiancas(_)
soma_confiancas(confiancas) ==
    IF Len(confiancas) = 0 THEN 0
    ELSE confiancas[1].n + soma_confiancas(Tail(confiancas))

\* The mean taken over every result, the invalid and failed ones included.
confianca_media_de_todos(estatisticas, resultados) ==
    IF Len(resultados) > 0
    THEN [num |-> soma_confiancas([k \in 1..Len(resultados) |-> resultados[k].confianca]),
          den |-> Len(resultados)]
    ELSE [num |-> 0, den |-> 1]

\* sum(confiancas) / len(confiancas) over the results that are neither
\* 'invalido' nor 'erro', kept as the fraction num/den of 1/6000 units.
confianca_media(estatisticas, resultados) ==
    IF estatisticas.validos > 0
    THEN LET validos == SelectSeq(resultados,
                                  LAMBDA r : r.tipo_detectado \notin {"invalido", "erro"})
             confiancas == [k \in 1..Len(validos) |-> validos[k].confianca]
         IN  [num |-> soma_confiancas(confiancas), den |-> Len(confiancas)]
    ELSE [num |-> 0, den |-> 1]

generate_insights(stats) ==
    LET media == stats.confianca_media
        td == stats.tipos_detectados
    IN  (IF stats.total > 0
         THEN IF 10 * stats.validos > 9 * stats.total THEN <<"Excelente qualidade">>
              ELSE IF 10 * stats.validos > 7 * stats.total THEN <<"Boa qualidade">>
              ELSE <<"Qualidade baixa">>
         ELSE <<>>)
        \o (IF stats.validos > 0
            THEN IF 10 * stats.marcenaria > 8 * stats.validos THEN <<"Arquivo bem preparado">>
                 ELSE IF 10 * stats.marcenaria > 5 * stats.validos THEN <<"Arquivo misto">>
                 ELSE <<"Muitos elementos nao-marcenaria">>
            ELSE <<>>)
        \o (IF media.num > 4800 * media.den THEN <<"Alta confianca">>
            ELSE IF media.num > 3600 * media.den THEN <<"Confianca moderada">>
            ELSE <<"Baixa confianca">>)
        \o (IF Len(td) > 0
            THEN LET mais == CHOOSE j \in 1..Len(td) :
                                 /\ \A k \in 1..Len(td) : td[k].n <= td[j].n
                                 /\ \A k \in 1..(j - 1) : td[k].n < td[j].n
                 IN  <<"Tipo mais comum: " \o td[mais].tipo>>
            ELSE <<>>)

generate_recommendations(stats) ==
    LET media == stats.confianca_media
    IN  (IF stats.total > 0 /\ 10 * stats.validos < 7 * stats.total
         THEN <<"Melhorar preparacao do arquivo 3D", "Verificar escala e unidades">>
         ELSE <<>>)
        \o (IF stats.validos > 0 /\ 10 * stats.marcenaria < 5 * stats.validos
            THEN <<"Remover elementos nao-marcenaria do SketchUp",
                   "Manter apenas moveis e componentes de madeira">>
            ELSE <<>>)
        \o (IF media.num < 3600 * media.den
            THEN <<"Usar nomes mais descritivos nos objetos",
                   "Verificar se dimensoes estao realistas">>
            ELSE <<>>)
        \o (IF 10 * stats.indefinidos > 3 * stats.marcenaria
            THEN <<"Revisar objetos indefinidos manualmente",
                   "Adicionar tags ou grupos no SketchUp">>
            ELSE <<>>)

analyze_batch(lista) ==
    LET resultados == [k \in 1..Len(lista) |-> analyze_component(lista[k])]
        inicial == [total |-> Len(lista), validos |-> 0, marcenaria |-> 0,
                    nao_marcenaria |-> 0, indefinidos |-> 0,
                    tipos_detectados |-> <<>>,
                    confianca_media |-> [num |-> 0, den |-> 1]]
        contadas == percorrer(inicial, resultados, Len(resultados))
        estatisticas == [contadas EXCEPT
                            !.confianca_media = confianca_media(contadas, resultados)]
    IN  [resultados |-> resultados,
         estatisticas |-> estatisticas,
         insights |-> generate_insights(estatisticas),
         recomendacoes |-> generate_recommendations(estatisticas)]


-----------------------------------------------------------------------------
(* FileAnalyzer._processar_componente (file_analyzer.py) *)

\* The extractor's area limits of 0.01 and 25 m2, in mm2.
file_analyzer_config ==
    [area_minima_componente |-> 10000, area_maxima_componente |-> 25000000]

\* Face areas (mm2) halfway between two ten-thousandths of m2 that
\* round(area_m2, 4) takes down to the lower one.
MeiasParaBaixo == {10050}

\* round(area_m2, 4) of a face area given in mm2, in ten-thousandths of m2.
round4(area) ==
    IF area % 100 = 50
    THEN IF area \in MeiasParaBaixo THEN area \div 100 ELSE area \div 100 + 1
    ELSE (area + 50) \div 100

\* The three face areas of the bounding box (XY, YZ, XZ), in mm2.
areas_faces(dimensoes) ==
    <<dimensoes[1] * dimensoes[2], dimensoes[2] * dimensoes[3],
      dimensoes[1] * dimensoes[3]>>

\* _processar_componente: None for fewer than three vertices or an area
\* outside the limits; otherwise the component dict, of which the keys the
\* analyzer reads are kept.  'area_m2' is the largest face rounded to four
\* decimals, handed on in thousandths of m2 (the boxes drawn below all round
\* to a whole number of thousandths).
processar_componente(nome, vertices, faces) ==
    IF Len(vertices) < 3
    THEN PyNone
    ELSE LET area_m2 == MaxOf(Range(areas_faces(bounding_box(vertices))))
         IN  IF \/ area_m2 < file_analyzer_config.area_minima_componente
                \/ area_m2 > file_analyzer_config.area_maxima_componente
             THEN PyNone
             ELSE [nome |-> PyStr(nome),
                   area_m2 |-> PyNum(round4(area_m2) \div 10),
                   vertices |-> vertices,
                   faces |-> PyList(faces)]

-----------------------------------------------------------------------------
(* Inputs *)

MaxBatch == 3      \* longest list handed to analyze_batch

\* A box given by two opposite corners, and by its eight corners.
Box2(w, h, d) == <<<<0, 0, 0>>, <<w, h, d>>>>
Box8(w, h, d) == <<<<0, 0, 0>>, <<w, 0, 0>>, <<w, h, 0>>, <<0, h, 0>>,
                   <<0, 0, d>>, <<w, 0, d>>, <<w, h, d>>, <<0, h, d>>>>
Faces6 == <<<<0, 1, 2, 3>>, <<4, 5, 6, 7>>, <<0, 1, 5, 4>>,
            <<1, 2, 6, 5>>, <<2, 3, 7, 6>>, <<3, 0, 4, 7>>>>

Componente(nome, dims, area, faces) ==
    [nome |-> PyStr(nome), area_m2 |-> PyNum(area),
     vertices |-> Box2(dims[1], dims[2], dims[3]), faces |-> PyList(faces)]

\* componente_exemplo of the module's __main__ block
componente_exemplo ==
    [nome |-> PyStr("Armario_Superior_Cozinha"), area_m2 |-> PyNum(2500),
     vertices |-> Box8(800, 600, 350), faces |-> PyList(Faces6)]

Nomes ==
    {"Armario_Superior_Cozinha", "Cabinet_Upper_Kitchen", "Wall_Partition",
     "Porta_Geladeira", "Drawer_Box", "Shelf_01", "Tall_Pantry", "Base_Counter",
     "Door_Leaf", "Caixa", "Movel_Sala", "Painel_Lateral"}

\* Width, height, depth (mm) and area (thousandths of m2) of boxes the validator
\* accepts: every pairing of a geometric pattern with a dimensional winner, and
\* every dimensional confidence, occurs among them.
GeometriasValidas ==
    {<<600, 2000, 500, 1000>>, <<600, 800, 500, 1000>>, <<600, 200, 500, 300>>,
     <<500, 500, 500, 1000>>, <<50, 100, 200, 10>>, <<200, 50, 100, 10>>,
     <<100, 200, 50, 10>>, <<100, 20, 500, 10>>, <<100, 400, 200, 10>>,
     <<100, 400, 300, 100>>, <<300, 500, 20, 10>>, <<300, 400, 200, 100>>,
     <<50, 700, 300, 100>>, <<300, 700, 50, 10>>, <<100, 300, 700, 200>>,
     <<100, 700, 350, 200>>, <<350, 200, 700, 300>>, <<200, 700, 400, 100>>,
     <<400, 600, 300, 500>>, <<350, 800, 200, 300>>, <<1200, 350, 50, 100>>,
     <<500, 600, 700, 300>>, <<600, 500, 900, 2500>>, <<100, 2000, 300, 100>>,
     <<400, 1800, 800, 300>>, <<100, 2400, 700, 200>>, <<350, 2400, 600, 300>>,
     <<50, 400, 50, 10>>, <<20, 100, 500, 10>>, <<50, 700, 50, 10>>,
     <<500, 400, 20, 10>>, <<600, 500, 20, 10>>, <<700, 200, 300, 100>>,
     <<200, 700, 350, 50>>, <<700, 300, 300, 100>>, <<300, 350, 700, 50>>,
     <<1200, 400, 20, 10>>, <<1200, 600, 20, 10>>, <<1200, 700, 50, 300>>,
     <<100, 2000, 100, 10>>, <<100, 2000, 100, 100>>, <<300, 2000, 50, 20>>,
     <<350, 2000, 100, 200>>, <<100, 2000, 500, 200>>, <<1800, 100, 700, 100>>,
     <<300, 2000, 400, 300>>, <<900, 400, 1800, 6000>>, <<1800, 600, 900, 2500>>,
     <<300, 350, 700, 100>>, <<300, 200, 900, 100>>, <<350, 2400, 700, 1000>>,
     <<400, 700, 800, 300>>, <<1800, 700, 900, 1000>>, <<800, 600, 350, 1000>>,
     <<900, 20, 400, 50>>,
     \* the boxes on which a shelf, a pantry and a counter get their highest
     \* confidence, and a door its highest
     <<700, 25, 600, 100>>, <<300, 2000, 300, 1000>>, <<350, 700, 400, 300>>,
     <<500, 1800, 25, 200>>}

\* One box for each reason the validator gives for rejecting, and one whose
\* density of exactly 0.1 is computed as 0.09999999999999999.
GeometriasInvalidas ==
    {<<5005, 600, 350, 1000>>, <<5, 5, 5, 1000>>, <<800, 600, 350, 26000>>,
     <<800, 600, 350, 5>>, <<800, 600, 350, 0>>, <<2400, 20, 500, 100>>,
     <<800, 600, 350, 2500>>, <<1000, 1000, 1000, 100>>, <<1000, 20, 500, 100>>}

Geometrias == GeometriasValidas \cup GeometriasInvalidas

\* Boxes that fail several of the validator's checks at once.
VariasFalhas ==
    {<<5005, 5, 350, 26000>>, <<800, 5, 350, 26000>>, <<2400, 20, 500, 26000>>,
     <<2400, 20, 500, 5>>, <<2400, 20, 500, 1000>>, <<5005, 600, 350, 5>>,
     <<800, 5, 350, 5>>, <<5005, 600, 350, 100>>, <<5000, 40, 5000, 100>>}

Regulares ==
    {Componente(nome, <<g[1], g[2], g[3]>>, g[4], <<>>) : nome \in Nomes, g \in Geometrias}

Especiais ==
    {componente_exemplo,
     PyNone,
     [nome |-> PyStr("Gaveta")],
     [nome |-> PyStr("Gaveta"), dimensoes |-> <<5, 5, 5>>],
     [nome |-> PyStr("Gaveta"), area_m2 |-> PyNum(1000), dimensoes |-> <<600, 200>>],
     [nome |-> PyStr("Gaveta"), area_m2 |-> PyNum(1000),
      vertices |-> <<<<0, 0, 0>>, <<600, 200>>>>],
     [nome |-> PyStr("Gaveta"), area_m2 |-> PyNone, vertices |-> Box2(600, 200, 500)],
     [nome |-> PyStr("Gaveta"), area_m2 |-> PyNone, vertices |-> Box2(600, 5, 500)],
     [nome |-> PyNone, area_m2 |-> PyNum(300), vertices |-> Box2(600, 200, 500)],
     [nome |-> PyStr("Gaveta"), area_m2 |-> PyNum(300), vertices |-> Box2(600, 200, 500),
      faces |-> PyNone],
     [nome |-> PyStr("Wall_Partition"), area_m2 |-> PyNum(300),
      vertices |-> Box2(600, 200, 500), faces |-> PyNone],
     \* vertices together with 'dimensoes' and an externally supplied volume
     [nome |-> PyStr("Gaveta"), area_m2 |-> PyNum(300), vertices |-> Box2(600, 200, 500),
      dimensoes |-> <<5, 5, 5>>, volume_m3 |-> PyNum(5000)],
     \* an empty vertex list and 'dimensoes'
     [nome |-> PyStr("Gaveta"), area_m2 |-> PyNum(300), vertices |-> <<>>,
      dimensoes |-> <<600, 200, 500>>, volume_m3 |-> PyNum(5000)],
     \* neither vertices nor 'dimensoes'
     [nome |-> PyStr("Gaveta"), area_m2 |-> PyNum(10), volume_m3 |-> PyNum(5000)],
     [nome |-> PyStr("Gaveta"), area_m2 |-> PyNum(20), vertices |-> <<>>],
     \* boxes of 27 m3 and of exactly 10 m3 whose density is within the bounds
     Componente("Caixa", <<3000, 3000, 3000>>, 15000, <<>>),
     Componente("Caixa", <<2500, 2000, 2000>>, 5000, <<>>)}
    \cup {Componente("Gaveta", <<g[1], g[2], g[3]>>, g[4], <<>>) : g \in VariasFalhas}

\* Boxes (mm) handed to the extractor as eight corners: shelf-, door- and
\* worktop-thickness panels, boxes just below and at 100 mm, boxes whose
\* largest face is not a whole number of ten-thousandths of m2, boxes outside
\* the extractor's area limits, and three cabinets.
CaixasExtraidas ==
    {<<800, 20, 300>>, <<500, 1800, 20>>, <<1200, 25, 400>>, <<95, 100, 100>>,
     <<100, 100, 100>>, <<95, 200, 200>>, <<105, 105, 50>>, <<145, 345, 95>>,
     <<215, 65, 60>>, <<30, 335, 30>>, <<105, 95, 95>>, <<5005, 5000, 95>>,
     <<5000, 5000, 95>>, <<600, 2000, 500>>, <<800, 600, 350>>}

NomesExtraidos == {"Shelf_01", "Door_Leaf", "Caixa"}

\* What the extractor hands to the analyzer: the components it returns, a
\* None being dropped by its callers.
Extraidos ==
    ({processar_componente(nome, Box8(b[1], b[2], b[3]), Faces6) :
         nome \in NomesExtraidos, b \in CaixasExtraidas}
     \cup {processar_componente("Shelf_01", Box2(800, 20, 300), <<>>)})
    \ {PyNone}

Componentes == Regulares \cup Especiais \cup Extraidos

\* The components batches are built from.
ComponentesLote ==
    {Componente("Armario_Superior_Cozinha", <<800, 600, 350>>, 1000, <<>>),
     Componente("Armario_Superior_Cozinha", <<300, 2000, 300>>, 1000, Faces6),
     Componente("Wall_Partition", <<800, 600, 350>>, 1000, <<>>),
     Componente("Painel_Lateral", <<50, 400, 50>>, 10, <<>>),
     Componente("Shelf_01", <<5, 5, 5>>, 1000, <<>>),
     [nome |-> PyStr("Gaveta"), area_m2 |-> PyNum(1000), dimensoes |-> <<600, 200>>]}

RECURSIVE Listas(_, _)
Listas(S, n) ==
    IF n = 0 THEN {<<>>}
    ELSE LET menores == Listas(S, n - 1)
         IN  menores \cup {Append(l, c) : l \in {m \in menores : Len(m) = n - 1}, c \in S}

Nenhum == [nenhum |-> TRUE]

\* Analysis results handed to _combine_analyses directly: the types and the
\* confidences the analyzers produce, the ends of [0, 1], and the types
\* 'invalido' and 'erro' the fusion excludes.
Analise(tipo, confianca, motivo) ==
    [tipo |-> tipo, confianca |-> confianca, motivo |-> Motivo(motivo, <<>>)]

Semanticas ==
    {Analise(tipo, confianca, "Nome indica " \o tipo) :
        tipo \in {"armario", "gaveta", "indefinido", "nao_marcenaria"},
        confianca \in {Dec(0), Dec(3000), Dec(4800), Dec(6000)}}

Geometricas ==
    {Analise(tipo, confianca, "Padrao geometrico") :
        tipo \in {"gaveta", "prateleira", "indefinido", "invalido"},
        confianca \in {Dec(0), Dec(4200), Dec(6000)}}

Dimensionais ==
    {Analise(tipo, confianca, "Dimensoes compativeis") :
        tipo \in {"armario", "gaveta", "indefinido", "erro"},
        confianca \in {Dec(0), Fl(2200, 1), Dec(5400), Dec(6000)}}

Estruturais == {Analise("simples", Dec(2400), "Geometria simples")}

Analises ==
    [semantic : Semanticas, geometric : Geometricas,
     dimensional : Dimensionais, structural : Estruturais]

-----------------------------------------------------------------------------
(* The analyzer and its two public methods *)

\* The analyzer as __init__ leaves it.
Construido ==
    /\ knowledge_base = build_knowledge_base
    /\ keywords = build_keywords
    /\ geometric_patterns = build_geometric_patterns
    /\ validation_rules = build_validation_rules
    /\ confidence_weights = build_confidence_weights

\* A caller holds either components for the public methods or four analysis
\* results for _combine_analyses.
Init ==
    /\ Construido
    /\ \/ /\ componentes \in {<<c>> : c \in Componentes} \cup Listas(ComponentesLote, MaxBatch)
          /\ analises = Nenhum
       \/ /\ componentes = <<>>
          /\ analises \in Analises
    /\ analisado = Nenhum
    /\ resultado = Nenhum
    /\ chamadas = <<>>
    /\ lote = Nenhum
    /\ fusao = Nenhum

\* analyze_component with a geometric analyzer that trims the candidate list
\* of every pattern the component matches, in the analyzer's own table.
AnalyzeComponent_aparando_padroes(i) ==
    /\ analisado' = componentes[i]
    /\ LET r == run_component(componentes[i])
           comp == convert_to_analysis_structure(componentes[i])
       IN  /\ resultado' = r.resultado
           /\ chamadas' = r.chamadas
           /\ geometric_patterns' =
                  [k \in 1..Len(geometric_patterns) |->
                      LET p == geometric_patterns[k]
                      IN  IF /\ "detalhes" \in DOMAIN r.resultado
                             /\ condicao(p.pattern, comp.dimensoes)
                             /\ Len(p.tipos_possiveis) > 1
                          THEN [p EXCEPT !.tipos_possiveis =
                                   SubSeq(@, 1, Len(@) - 1)]
                          ELSE p]
    /\ UNCHANGED <<knowledge_base, keywords, validation_rules, confidence_weights,
                   componentes, lote, analises, fusao>>

AnalyzeComponent(i) ==
    /\ analisado' = componentes[i]
    /\ LET r == run_component(componentes[i])
       IN  /\ resultado' = r.resultado
           /\ chamadas' = r.chamadas
    /\ UNCHANGED <<self_vars, componentes, lote, analises, fusao>>

AnalyzeBatch ==
    /\ lote' = analyze_batch(componentes)
    /\ UNCHANGED <<self_vars, componentes, analisado, resultado, chamadas, analises, fusao>>

CombineAnalyses ==
    /\ analises # Nenhum
    /\ fusao' = combine_analyses(analises.semantic, analises.geometric,
                                 analises.dimensional, analises.structural)
    /\ UNCHANGED <<self_vars, componentes, analisado, resultado, chamadas, lote, analises>>

Next ==
    \/ \E i \in 1..Len(componentes) : AnalyzeComponent(i)
    \/ AnalyzeBatch
    \/ CombineAnalyses

Spec == Init /\ [][Next]_vars

-----------------------------------------------------------------------------
(* Properties *)

\* What analyze_component's first two steps give for the component analysed last.
convertido == convert_to_analysis_structure(analisado)
validacao == validate_component(convertido)

Analisado == analisado # Nenhum
PassaValidacao ==
    Analisado /\ ~Raised(convertido) /\ ~Raised(validacao) /\ validacao.is_valid
FalhaValidacao ==
    Analisado /\ ~Raised(convertido) /\ ~Raised(validacao) /\ ~validacao.is_valid

\* The name of the component holds a non-woodwork or an appliance keyword.
NomeNaoMarcenaria ==
    /\ convertido.nome # PyNone
    /\ \/ any_keyword(keywords.nao_marcenaria, lower(convertido.nome.v))
       \/ any_keyword(keywords.eletrodomesticos, lower(convertido.nome.v))

Invalidos == {"invalido", "erro"}
Analisadores ==
    {"_analyze_semantic", "_analyze_geometry", "_analyze_dimensions",
     "_analyze_structure", "_combine_analyses"}

\* 0 <= c <= 0.95
EntreZeroE95(c) == FLe(Dec(0), c) /\ FLe(c, Dec(5700))

\* The fusion handed a non-woodwork semantic result returns it, whatever the
\* other three results are.
AtalhoNaFusao ==
    (fusao # Nenhum /\ analises.semantic.tipo = "nao_marcenaria") =>
        /\ fusao.tipo_detectado = "nao_marcenaria"
        /\ fusao.confianca = analises.semantic.confianca
        /\ fusao.motivo = analises.semantic.motivo

C2_ValidationGate ==
    FalhaValidacao =>
        /\ resultado.tipo_detectado = "invalido"
        /\ resultado.confianca = Dec(0)
        /\ resultado.motivo = validacao.reason
        /\ resultado.sugestoes = validacao.suggestions
        /\ chamadas = <<"_convert_to_analysis_structure", "_validate_component">>
        /\ \A k \in 1..Len(chamadas) : chamadas[k] \notin Analisadores

\* C2 witness: the 5 x 5 x 5 mm box with a woodwork name has been analysed and rejected.
C2_Witness ==
    /\ FalhaValidacao
    /\ convertido.dimensoes = <<5, 5, 5>>
    /\ convertido.nome = PyStr("Drawer_Box")
    /\ resultado.tipo_detectado = "invalido"

\* The message of the first fault analyze_component meets on the component
\* analysed last, "" when it meets none.
falha ==
    IF Raised(convertido) THEN convertido.exc
    ELSE IF Raised(validacao) THEN validacao.exc
    ELSE IF ~validacao.is_valid THEN ""
    ELSE IF Raised(analyze_semantic(convertido)) THEN analyze_semantic(convertido).exc
    ELSE IF Raised(analyze_structure(convertido)) THEN analyze_structure(convertido).exc
    ELSE ""

\* Results of the classes the statistics distinguish.
Contar(resultados, tipos) ==
    Cardinality({k \in 1..Len(resultados) : resultados[k].tipo_detectado \in tipos})

\* C3: a fault raised in any step of analyze_component comes back as a result
\* of type 'erro' with confidence 0.0 and the fault's message in the reason;
\* and analyze_batch returns one result per input component, each the result
\* of analyze_component, with the statistics counted over the results that
\* are neither 'invalido' nor 'erro'.
C3_ErrorBoundary ==
    /\ (Analisado /\ falha # "") =>
           /\ resultado.tipo_detectado = "erro"
           /\ resultado.confianca = Dec(0)
           /\ resultado.motivo.texto = "Erro na analise: " \o falha
    /\ lote # Nenhum =>
           /\ Len(lote.resultados) = Len(componentes)
           /\ \A k \in 1..Len(componentes) :
                  /\ "tipo_detectado" \in DOMAIN lote.resultados[k]
                  /\ lote.resultados[k] = analyze_component(componentes[k])
           /\ lote.estatisticas.total = Len(componentes)
           /\ lote.estatisticas.validos
                  = Len(componentes) - Contar(lote.resultados, Invalidos)

\* C3 witness: a batch holding a component whose conversion raises and a
\* component that classifies, analysed.
C3_Witness ==
    /\ lote # Nenhum
    /\ \E k \in 1..Len(componentes) :
           /\ Raised(convert_to_analysis_structure(componentes[k]))
           /\ lote.resultados[k].tipo_detectado = "erro"
    /\ lote.estatisticas.validos > 0

\* C4: the reference component (named 'Armario_Superior_Cozinha' or
\* 'Cabinet_Upper_Kitchen', bounding box 800 x 600 x 350 mm, area 2.5 m2) is
\* classified 'armario' with confidence above 0.5.
C4_ReferenceScenario ==
    (/\ Analisado /\ ~Raised(convertido)
     /\ convertido.nome \in {PyStr("Armario_Superior_Cozinha"), PyStr("Cabinet_Upper_Kitchen")}
     /\ convertido.dimensoes = <<800, 600, 350>>
     /\ convertido.area_m2 = PyNum(2500)) =>
        /\ resultado.tipo_detectado = "armario"
        /\ FLt(Dec(3000), resultado.confianca)

\* C5: every result of analyze_component carries the five interface fields.
C5_FiveFields ==
    resultado # Nenhum =>
        {"tipo_detectado", "confianca", "motivo", "sugestoes", "alternativas"}
            \subseteq DOMAIN resultado

\* C6: the detected type of every result, of analyze_component and in a
\* batch, is one of the seven knowledge-base types or 'nao_marcenaria',
\* 'indefinido', 'invalido', 'erro'.
TiposDeResultado ==
    Range(TiposConhecidos) \cup {"nao_marcenaria", "indefinido", "invalido", "erro"}

C6_TiposDetectados ==
    /\ resultado # Nenhum => resultado.tipo_detectado \in TiposDeResultado
    /\ lote # Nenhum =>
           \A k \in 1..Len(lote.resultados) :
               lote.resultados[k].tipo_detectado \in TiposDeResultado

\* C6 witness: a component whose geometric pattern lists 'tampo' or 'rodape'
\* among its candidates has been classified as a knowledge-base type.
C6_Witness ==
    /\ PassaValidacao
    /\ "alternativas" \in DOMAIN analyze_geometry(convertido)
    /\ Range(analyze_geometry(convertido).alternativas) \cap {"tampo", "rodape"} # {}
    /\ resultado.tipo_detectado \in Range(TiposConhecidos)

RECURSIVE SomaValidos(_, _)
SomaValidos(resultados, k) ==
    IF k = 0 THEN 0
    ELSE SomaValidos(resultados, k - 1)
         + (IF resultados[k].tipo_detectado \in Invalidos THEN 0
            ELSE resultados[k].confianca.n)

\* C8: confianca_media is the arithmetic mean of the confidences of exactly
\* the results that are neither 'invalido' nor 'erro', and 0.0 when there are none.
C8_ConfiancaMedia ==
    lote # Nenhum =>
        LET media == lote.estatisticas.confianca_media
            n == Len(lote.resultados) - Contar(lote.resultados, Invalidos)
        IN  /\ media.den > 0
            /\ IF n = 0 THEN media.num = 0
               ELSE media.num * n
                        = SomaValidos(lote.resultados, Len(lote.resultados)) * media.den

\* C8 witness: a batch with a rejected component, a non-woodwork one and a
\* woodwork one has been analysed, and its mean is above zero.
C8_Witness ==
    /\ lote # Nenhum
    /\ Contar(lote.resultados, Invalidos) > 0
    /\ Contar(lote.resultados, {"nao_marcenaria"}) > 0
    /\ Contar(lote.resultados, Range(TiposConhecidos)) > 0
    /\ lote.estatisticas.confianca_media.num > 0

RECURSIVE SomaContagens(_)
SomaContagens(td) == IF Len(td) = 0 THEN 0 ELSE td[1].n + SomaContagens(Tail(td))

\* C9: total is the number of inputs; validos the number of results not
\* 'invalido'/'erro'; nao_marcenaria, indefinidos and marcenaria the numbers
\* of results of their class, adding up to validos; tipos_detectados holds
\* each woodwork type that occurs once, with its number of occurrences, the
\* numbers adding up to marcenaria.
C9_Contagens ==
    lote # Nenhum =>
        LET e == lote.estatisticas
            rs == lote.resultados
            td == e.tipos_detectados
            outros == Invalidos \cup {"nao_marcenaria", "indefinido"}
        IN  /\ e.total = Len(componentes)
            /\ e.validos = Len(rs) - Contar(rs, Invalidos)
            /\ e.nao_marcenaria = Contar(rs, {"nao_marcenaria"})
            /\ e.indefinidos = Contar(rs, {"indefinido"})
            /\ e.marcenaria = Len(rs) - Contar(rs, outros)
            /\ e.validos = e.marcenaria + e.nao_marcenaria + e.indefinidos
            /\ \A k \in 1..Len(td) :
                   /\ td[k].tipo \notin outros
                   /\ td[k].n = Contar(rs, {td[k].tipo})
                   /\ \A j \in 1..Len(td) : td[j].tipo = td[k].tipo => j = k
            /\ \A k \in 1..Len(rs) :
                   rs[k].tipo_detectado \notin outros =>
                       \E j \in 1..Len(td) : td[j].tipo = rs[k].tipo_detectado
            /\ SomaContagens(td) = e.marcenaria

\* C9 witness: a batch in which one woodwork type occurs twice, next to a
\* result outside the valid ones, has been analysed.
C9_Witness ==
    /\ lote # Nenhum
    /\ \E k \in 1..Len(lote.estatisticas.tipos_detectados) :
           lote.estatisticas.tipos_detectados[k].n = 2
    /\ lote.estatisticas.validos < lote.estatisticas.total

\* Two converted components carry the same name.
MesmoNome(a, b) == ~Raised(a) /\ ~Raised(b) /\ a.nome # PyNone /\ a.nome = b.nome

\* C10: two components with the same name get the same semantic type and
\* confidence, whatever their dimensions, area, vertices and faces: from
\* _analyze_semantic applied to each, and in the semantic detail of the
\* results a batch returns for them.
C10_SemanticaSemGeometria ==
    \A i \in 1..Len(componentes) : \A j \in (i + 1)..Len(componentes) :
        LET a == convert_to_analysis_structure(componentes[i])
            b == convert_to_analysis_structure(componentes[j])
            semantic_a == analyze_semantic(a)
            semantic_b == analyze_semantic(b)
        IN  MesmoNome(a, b) =>
                /\ semantic_a.tipo = semantic_b.tipo
                /\ semantic_a.confianca = semantic_b.confianca
                /\ (/\ lote # Nenhum
                    /\ "detalhes" \in DOMAIN lote.resultados[i]
                    /\ "detalhes" \in DOMAIN lote.resultados[j]) =>
                       lote.resultados[i].detalhes.semantic
                           = lote.resultados[j].detalhes.semantic

\* C10 witness: a batch with two components of one name that differ in
\* dimensions, area-to-volume, vertices and faces has been analysed, both of
\* them past validation.
C10_Witness ==
    /\ lote # Nenhum
    /\ \E i, j \in 1..Len(componentes) :
           LET a == convert_to_analysis_structure(componentes[i])
               b == convert_to_analysis_structure(componentes[j])
           IN  /\ MesmoNome(a, b)
               /\ a.dimensoes # b.dimensoes
               /\ a.faces # b.faces
               /\ "detalhes" \in DOMAIN lote.resultados[i]
               /\ "detalhes" \in DOMAIN lote.resultados[j]

\* The geometric analysis a result carries in its details, when it has them.
TemDetalhes == Analisado /\ "detalhes" \in DOMAIN resultado

\* min(dims)/max(dims) < 0.05
MuitoPlano(dims) == 20 * MinOf(Range(dims)) < MaxOf(Range(dims))

\* The condition of some pattern other than 'muito_plano' holds as well.
OutroPadrao(dims) ==
    \E k \in 2..Len(geometric_patterns) : condicao(geometric_patterns[k].pattern, dims)

\* C11: for every dimension triple with min/max < 0.05 the geometric analyzer
\* reports the 'muito_plano' pattern, a type among prateleira, porta and tampo
\* and confidence 0.7, whatever other patterns the triple satisfies: both
\* _analyze_geometry applied to the converted component and the geometric
\* detail analyze_component returns.
C11_MuitoPlano ==
    (Analisado /\ ~Raised(convertido) /\ MuitoPlano(convertido.dimensoes)) =>
        LET g == analyze_geometry(convertido)
        IN  /\ g.tipo \in {"prateleira", "porta", "tampo"}
            /\ g.confianca = Dec(4200)
            /\ g.motivo = Motivo("Padrao geometrico: muito_plano", <<>>)
            /\ TemDetalhes => resultado.detalhes.geometric = g

\* C11 witness: a very flat and very tall box passed validation and its
\* result carries the geometric detail.
C11_Witness ==
    /\ TemDetalhes
    /\ MuitoPlano(convertido.dimensoes)
    /\ convertido.dimensoes[2] > 1800
    /\ OutroPadrao(convertido.dimensoes)
    /\ resultado.detalhes.geometric.tipo = "prateleira"

ComVertices == "vertices" \in DOMAIN analisado /\ Len(analisado.vertices) > 0

\* dims[i] is the extent of the vertices along axis i: a difference of two
\* coordinates that no other difference exceeds.
Extensao(vertices, dims) ==
    \A i \in 1..3 :
        /\ \E a, b \in 1..Len(vertices) : dims[i] = vertices[a][i] - vertices[b][i]
        /\ \A a, b \in 1..Len(vertices) : vertices[a][i] - vertices[b][i] <= dims[i]

\* C13: the dimensions analysed are the bounding-box extent of the vertices
\* when there are vertices (a supplied 'dimensoes' is ignored), else the
\* supplied 'dimensoes', else (100, 100, 100); the volume is the product of
\* those dimensions (in cells of 125 mm3), whatever volume was supplied; and
\* a rejection for density reports that volume.
C13_Construcao ==
    (Analisado /\ ~Raised(convertido)) =>
        /\ ComVertices => Extensao(analisado.vertices, convertido.dimensoes)
        /\ (~ComVertices /\ "dimensoes" \in DOMAIN analisado) =>
               convertido.dimensoes = analisado.dimensoes
        /\ (~ComVertices /\ "dimensoes" \notin DOMAIN analisado) =>
               /\ convertido.dimensoes = <<100, 100, 100>>
               /\ convertido.volume_m3 = 8000
        /\ convertido.volume_m3
             = ((convertido.dimensoes[1] * convertido.dimensoes[2]) \div 25)
                 * (convertido.dimensoes[3] \div 5)
        /\ (FalhaValidacao /\ resultado.motivo.texto
                                \in {"Densidade muito baixa", "Densidade muito alta"}) =>
               resultado.motivo.valor[1]
                 = ((convertido.dimensoes[1] * convertido.dimensoes[2]) \div 25)
                     * (convertido.dimensoes[3] \div 5)
        /\ (FalhaValidacao /\ resultado.motivo.texto = "Dimensao muito pequena") =>
               resultado.motivo.valor[1] = MinOf(Range(convertido.dimensoes))

\* C13 witness: a component with vertices, a different 'dimensoes' and a
\* supplied volume has been analysed and passed validation on its bounding box.
C13_Witness ==
    /\ PassaValidacao
    /\ ComVertices
    /\ "dimensoes" \in DOMAIN analisado
    /\ "volume_m3" \in DOMAIN analisado
    /\ analisado.dimensoes # convertido.dimensoes
    /\ analisado.volume_m3.v # convertido.volume_m3
    /\ "detalhes" \in DOMAIN resultado

\* C14: in every state the five tables are the ones __init__ built, and no
\* step (an analyze_component or analyze_batch call, whatever its outcome)
\* changes a table or the caller's component records; the component a call
\* was given is still one of the caller's records afterwards.
C14_TabelasSomenteLeitura ==
    /\ []Construido
    /\ [][/\ UNCHANGED self_vars
          /\ componentes' = componentes
          /\ analisado' # Nenhum =>
                 \E i \in 1..Len(componentes) : analisado' = componentes[i]]_vars

\* C14 witness: after a batch holding a rejected and a failing component and
\* an analyze_component call that ended in 'erro', the tables are as built.
C14_Witness ==
    /\ Construido
    /\ lote # Nenhum
    /\ \E i \in 1..Len(componentes) : lote.resultados[i].tipo_detectado = "invalido"
    /\ \E i \in 1..Len(componentes) : "detalhes" \in DOMAIN lote.resultados[i]
    /\ Analisado
    /\ resultado.tipo_detectado = "erro"

\* Every dimension within [10, 5000] mm and max/min <= 100.
DimensoesAceitas(dims) ==
    /\ MaxOf(Range(dims)) <= 5000
    /\ MinOf(Range(dims)) >= 10
    /\ MaxOf(Range(dims)) <= 100 * MinOf(Range(dims))

\* C15: a component whose area is 0 (unknown), whose dimensions are within
\* [10, 5000] mm and whose aspect ratio is at most 100 is not rejected for a
\* too small area: the validator reports it valid and analyze_component does
\* not return 'invalido'.
C15_AreaZeroAceita ==
    (/\ Analisado
     /\ ~Raised(convertido)
     /\ convertido.area_m2 = PyNum(0)
     /\ DimensoesAceitas(convertido.dimensoes)) =>
        /\ validacao.is_valid
        /\ resultado.tipo_detectado # "invalido"

\* The validator's checks in their fixed order, each stated on the converted
\* component: dimensions in mm, area in thousandths of m2, and the density
\* volume/area as the code's division computes it.
Verificacoes(comp) ==
    LET dims == comp.dimensoes
        area == comp.area_m2.v
    IN  <<[falha |-> MaxOf(Range(dims)) > 5000,  texto |-> "Dimensao muito grande"],
          [falha |-> MinOf(Range(dims)) < 10,    texto |-> "Dimensao muito pequena"],
          [falha |-> area > 25000,               texto |-> "Area muito grande"],
          [falha |-> area < 10,                  texto |-> "Area muito pequena"],
          [falha |-> MaxOf(Range(dims)) > 100 * MinOf(Range(dims)),
                                                 texto |-> "Proporcao muito extrema"],
          [falha |-> area > 0 /\ densidade_abaixo(comp, 1),
                                                 texto |-> "Densidade muito baixa"],
          [falha |-> area > 0 /\ densidade_acima(comp, 20),
                                                 texto |-> "Densidade muito alta"]>>

Falhas(comp) == {k \in 1..7 : Verificacoes(comp)[k].falha}

\* The component analysed last converts and has a numeric area.
Validavel == Analisado /\ ~Raised(convertido) /\ convertido.area_m2 # PyNone

\* C16: the validator reports the first check that fails, in the order max
\* dimension, min dimension, area too large, area too small, proportion,
\* density too low, density too high, also when several fail; the component
\* is valid exactly when none fails; and analyze_component returns the
\* reason and suggestions of that first failing check.
C16_PrimeiraFalha ==
    Validavel =>
        LET falhas == Falhas(convertido)
        IN  /\ validacao.is_valid <=> falhas = {}
            /\ falhas # {} =>
                   /\ validacao.reason.texto = Verificacoes(convertido)[MinOf(falhas)].texto
                   /\ resultado.tipo_detectado = "invalido"
                   /\ resultado.motivo = validacao.reason
                   /\ resultado.sugestoes = validacao.suggestions
            /\ falhas = {} =>
                   /\ validacao.reason.texto = "Componente valido"
                   /\ resultado.tipo_detectado # "invalido"

\* C16 witness: a box with an oversize area and an extreme proportion (and
\* nothing wrong with its dimensions) was rejected for its area.
C16_Witness ==
    /\ Validavel
    /\ {3, 5} \subseteq Falhas(convertido)
    /\ MinOf(Falhas(convertido)) = 3
    /\ resultado.tipo_detectado = "invalido"
    /\ resultado.motivo.texto = "Area muito grande"

\* The component analysed last converts and has a string for a name.
ComNome == Analisado /\ ~Raised(convertido) /\ convertido.nome # PyNone

\* The knowledge-base types, by position, that have a keyword in the name.
TiposNoNome(nome_lower) ==
    {k \in 1..Len(TiposConhecidos) :
        any_keyword(knowledge_base[TiposConhecidos[k]].keywords, nome_lower)}

\* C17: the semantic analyzer takes exactly one branch, in this order: a
\* non-woodwork or appliance keyword in the lower-cased name gives
\* 'nao_marcenaria' 0.9 even with woodwork keywords present; else the first
\* knowledge-base type in declaration order with a keyword in the name gives
\* that type 0.8, so 'drawer' or 'gaveta' in the name never gives 'gaveta'
\* and gives 'gaveteiro' unless an earlier type has a keyword too; else a
\* generic woodwork keyword gives 'armario' 0.5; else 'indefinido' 0.1.  The
\* result of analyze_component carries that analysis.
C17_PrioridadeSemantica ==
    ComNome =>
        LET nome_lower == lower(convertido.nome.v)
            s == analyze_semantic(convertido)
            nao == \/ any_keyword(keywords.nao_marcenaria, nome_lower)
                   \/ any_keyword(keywords.eletrodomesticos, nome_lower)
            tipos == TiposNoNome(nome_lower)
            generico == any_keyword(keywords.marcenaria, nome_lower)
            gaveta == contains("drawer", nome_lower) \/ contains("gaveta", nome_lower)
        IN  /\ nao => s.tipo = "nao_marcenaria" /\ s.confianca = Dec(5400)
            /\ (~nao /\ tipos # {}) =>
                   /\ s.tipo = TiposConhecidos[MinOf(tipos)]
                   /\ s.confianca = Dec(4800)
            /\ (~nao /\ gaveta) =>
                   /\ s.tipo # "gaveta"
                   /\ s.tipo \in {"armario", "despenseiro", "balcao", "gaveteiro"}
                   /\ s.confianca = Dec(4800)
            /\ (~nao /\ tipos = {} /\ generico) =>
                   s.tipo = "armario" /\ s.confianca = Dec(3000)
            /\ (~nao /\ tipos = {} /\ ~generico) =>
                   s.tipo = "indefinido" /\ s.confianca = Dec(600)
            /\ TemDetalhes => resultado.detalhes.semantic = s

\* C17 witness: a component named with 'drawer' and 'box' (keywords of both
\* 'gaveteiro' and 'gaveta') passed validation and was read as 'gaveteiro'.
C17_Witness ==
    /\ ComNome
    /\ TemDetalhes
    /\ contains("drawer", lower(convertido.nome.v))
    /\ contains("box", lower(convertido.nome.v))
    /\ resultado.detalhes.semantic.tipo = "gaveteiro"
    /\ resultado.detalhes.semantic.confianca = Dec(4800)

\* The patterns, by position in the declared order muito_plano, muito_alto,
\* altura_bancada, muito_baixo, proporcao_gaveta, whose condition holds.
PadroesQueCasam(dims) ==
    {k \in 1..5 :
        condicao(<<"muito_plano", "muito_alto", "altura_bancada",
                   "muito_baixo", "proporcao_gaveta">>[k], dims)}

\* C18: when patterns match, _analyze_geometry returns the first candidate
\* type of the matching pattern earliest in declaration order, confidence 0.7
\* and that pattern's remaining candidates as alternatives; when none
\* matches it returns 'indefinido' with confidence 0.2.  The result of
\* analyze_component carries that analysis.
C18_PrimeiroPadrao ==
    (Analisado /\ ~Raised(convertido)) =>
        LET g == analyze_geometry(convertido)
            casam == PadroesQueCasam(convertido.dimensoes)
        IN  /\ casam # {} =>
                   LET p == geometric_patterns[MinOf(casam)]
                   IN  /\ g.tipo = p.tipos_possiveis[1]
                       /\ g.confianca = Dec(4200)
                       /\ g.motivo.texto = "Padrao geometrico: " \o p.pattern
                       /\ g.alternativas = Tail(p.tipos_possiveis)
            /\ casam = {} =>
                   /\ g.tipo = "indefinido"
                   /\ g.confianca = Dec(1200)
                   /\ "alternativas" \notin DOMAIN g
            /\ TemDetalhes => resultado.detalhes.geometric = g

\* C18 witness: a box at counter height with drawer proportions (two
\* patterns, neither the first of the table) passed validation and was read
\* as 'balcao' with 'gaveteiro' as alternative.
C18_Witness ==
    /\ TemDetalhes
    /\ PadroesQueCasam(convertido.dimensoes) = {3, 5}
    /\ resultado.detalhes.geometric.tipo = "balcao"
    /\ resultado.detalhes.geometric.alternativas = <<"gaveteiro">>

\* low <= x <= high
Dentro(x, range) == range[1] <= x /\ x <= range[2]

\* The typical volume range a knowledge-base entry declares, under either
\* spelling of its key, in cells of 125 mm3.
FaixaDeVolume(info) ==
    LET range == IF "volume_tipico" \in DOMAIN info
                 THEN info.volume_tipico ELSE info.volume_tipica
    IN  <<8000 * range[1], 8000 * range[2]>>

\* The dimensional score of the claim, in units of 1/6000:
\* 0.4 * hits/3 + 0.3 * hits/2 + 0.2 for the area + 0.1 for the volume.
ScoreDeclarado(comp, tipo) ==
    LET info == knowledge_base[tipo]
        dims == comp.dimensoes
        nas_faixas == Cardinality(
            {i \in 1..3 :
                Dentro(dims[i],
                       info.dimensoes_tipicas[<<"largura", "altura", "profundidade">>[i]])})
        \* height/width and depth/width in hundredths, 0 when the width is 0
        altura_largura == IF dims[1] > 0 THEN <<100 * dims[2], dims[1]>> ELSE <<0, 1>>
        prof_largura == IF dims[1] > 0 THEN <<100 * dims[3], dims[1]>> ELSE <<0, 1>>
        proporcoes ==
            (IF /\ info.proporcoes.altura_largura[1] * altura_largura[2] <= altura_largura[1]
                /\ altura_largura[1] <= info.proporcoes.altura_largura[2] * altura_largura[2]
             THEN 1 ELSE 0)
            + (IF /\ info.proporcoes.profundidade_largura[1] * prof_largura[2] <= prof_largura[1]
                  /\ prof_largura[1] <= info.proporcoes.profundidade_largura[2] * prof_largura[2]
               THEN 1 ELSE 0)
    IN  800 * nas_faixas + 900 * proporcoes
        + (IF Dentro(comp.area_m2.v, info.area_tipica) THEN 1200 ELSE 0)
        + (IF Dentro(comp.volume_m3, FaixaDeVolume(info)) THEN 600 ELSE 0)

\* C19: for every knowledge-base type the score _analyze_dimensions computes
\* is 0.4 * (dimensions in range)/3 + 0.3 * (proportions in range)/2 + 0.2 if
\* the area is in the type's range + 0.1 if the volume is in the type's
\* volume range, so it lies in [0, 1]; and the confidence reported with a
\* type is min(score of that type, 0.9), that score being the highest.
C19_ScoreDimensional ==
    Validavel =>
        /\ \A k \in 1..Len(TiposConhecidos) :
               LET score == score_tipo(convertido, TiposConhecidos[k]).score
               IN  /\ score.n = ScoreDeclarado(convertido, TiposConhecidos[k])
                   /\ FLe(Dec(0), score) /\ FLe(score, Dec(6000))
        /\ LET d == analyze_dimensions(convertido)
           IN  d.tipo # "indefinido" =>
                   /\ d.confianca = FMin(score_tipo(convertido, d.tipo).score, Dec(5400))
                   /\ \A k \in 1..Len(TiposConhecidos) :
                          FLe(score_tipo(convertido, TiposConhecidos[k]).score,
                              score_tipo(convertido, d.tipo).score)

\* C20: _analyze_dimensions discards exactly the types that score below 0.3:
\* when some type scores 0.3 or more (for instance 0.3 from both proportion
\* checks and nothing else) the result names a type, and the result is
\* 'indefinido' (confidence 0.1) only when every type scores below 0.3; for
\* every component that passes validation and reaches the analyzers, whose
\* result carries that analysis.
C20_LimiarDimensional ==
    (PassaValidacao /\ TemDetalhes) =>
        LET d == analyze_dimensions(convertido)
            scores == [k \in 1..Len(TiposConhecidos) |->
                          score_tipo(convertido, TiposConhecidos[k]).score]
        IN  /\ (\E k \in 1..Len(TiposConhecidos) : FLe(Dec(1800), scores[k])) =>
                   d.tipo # "indefinido"
            /\ d.tipo = "indefinido" =>
                   /\ d.confianca = Dec(600)
                   /\ \A k \in 1..Len(TiposConhecidos) : FLt(scores[k], Dec(1800))
            /\ resultado.detalhes.dimensional = d

\* C21: for each of the seven knowledge-base types, 'prateleira' included, a
\* component whose volume lies inside the typical volume range the type
\* declares has 'volume tipico' among that type's reasons and the weight 0.1
\* of the volume in that type's score; and a component whose volume lies
\* outside has neither.
C21_VolumeEmTodoTipo ==
    (PassaValidacao /\ TemDetalhes) =>
        \A k \in 1..Len(TiposConhecidos) :
            LET tipo == TiposConhecidos[k]
                m == score_tipo(convertido, tipo)
                na_faixa == Dentro(convertido.volume_m3, FaixaDeVolume(knowledge_base[tipo]))
                sem_volume == ScoreDeclarado(convertido, tipo) - (IF na_faixa THEN 600 ELSE 0)
            IN  /\ na_faixa <=> "volume tipico" \in Range(m.reasons)
                /\ m.score.n = sem_volume + (IF na_faixa THEN 600 ELSE 0)

\* Face lists of 4 and 7 faces: with the two corners of a box they make the
\* structural analysis 'medio' and 'complexo'.
Faces4 == SubSeq(Faces6, 1, 4)
Faces7 == Append(Faces6, <<0, 2, 4, 6>>)
ListasDeFaces == {<<>>, Faces4, Faces6, Faces7}

\* The component with its face list replaced.
ComFaces(componente, faces) ==
    [k \in DOMAIN componente \cup {"faces"} |->
        IF k = "faces" THEN PyList(faces) ELSE componente[k]]

\* The component analysed last is a record whose face list, when it has
\* one, is a list; the caller holds it alone.
ComListaDeFaces ==
    /\ Analisado
    /\ Len(componentes) = 1
    /\ analisado # PyNone
    /\ "faces" \in DOMAIN analisado => analisado.faces # PyNone

\* The fields of a result other than 'detalhes'.
SemDetalhes(r) == [k \in DOMAIN r \ {"detalhes"} |-> r[k]]

\* The details of a result other than the structural analysis.
SemEstrutural(r) == [k \in DOMAIN r.detalhes \ {"structural"} |-> r.detalhes[k]]

\* C22: the structural analysis never votes.  The component analysed last
\* and the same component with any other face list get the same type,
\* confidence, motive, suggestions and alternatives (present or absent
\* alike), and the same details apart from the structural analysis, which
\* is _analyze_structure's result for the face list each one has.
C22_EstruturalNaoVota ==
    ComListaDeFaces =>
        \A faces \in ListasDeFaces :
            LET outro == ComFaces(analisado, faces)
                r == analyze_component(outro)
            IN  /\ SemDetalhes(r) = SemDetalhes(resultado)
                /\ "detalhes" \in DOMAIN r <=> "detalhes" \in DOMAIN resultado
                /\ "detalhes" \in DOMAIN r =>
                       /\ SemEstrutural(r) = SemEstrutural(resultado)
                       /\ r.detalhes.structural
                            = analyze_structure(convert_to_analysis_structure(outro))
                       /\ resultado.detalhes.structural = analyze_structure(convertido)

\* C22 witness: a fused result with alternatives for a component whose
\* structural analysis is 'simples', and which with seven faces is 'complexo'.
C22_Witness ==
    /\ ComListaDeFaces
    /\ TemDetalhes
    /\ "alternativas" \in DOMAIN resultado
    /\ resultado.detalhes.structural.tipo = "simples"
    /\ analyze_component(ComFaces(analisado, Faces7)).detalhes.structural.tipo = "complexo"

\* The weights of the semantic, geometric and dimensional analyses, in tenths.
PesosDeclarados == <<2, 4, 3>>

\* The types the three voting analyses name, leaving out the types that
\* stand for no classification.
TiposVotados(votos) ==
    {votos[k].tipo : k \in 1..3} \ {"indefinido", "nao_marcenaria", "invalido", "erro"}

\* The sum of confidence * weight over the analyses whose type is tipo, in
\* units of 1/6000.
SomaDeclarada(tipo, votos) ==
    LET parcela(k) == IF votos[k].tipo = tipo
                      THEN (votos[k].confianca.n * PesosDeclarados[k]) \div 10
                      ELSE 0
    IN  parcela(1) + parcela(2) + parcela(3)

\* The result r of fusing the analyses a accumulates as declared.
AcumulacaoDeclarada(r, a) ==
    LET votos == <<a.semantic, a.geometric, a.dimensional>>
        cands == candidatos(a.semantic, a.geometric, a.dimensional)
        votados == TiposVotados(votos)
    IN  /\ {cands[k].tipo : k \in 1..Len(cands)} = votados
        /\ \A k \in 1..Len(cands) :
               /\ cands[k].total_score.n = SomaDeclarada(cands[k].tipo, votos)
               /\ cands[k].total_score.e \in {-1, 0, 1}
               /\ \A j \in 1..Len(cands) : cands[j].tipo = cands[k].tipo => j = k
        /\ votados = {} =>
               r.tipo_detectado = "indefinido" /\ r.confianca = Dec(1200)
        /\ votados # {} =>
               /\ r.tipo_detectado \in votados
               /\ \E k \in 1..Len(cands) :
                      /\ cands[k].tipo = r.tipo_detectado
                      /\ r.confianca = FRound3(FMin(cands[k].total_score, Dec(5700)))
               /\ {p[1] : p \in Range(r.detalhes.scores_por_analise)}
                    = {Votantes[k] : k \in {j \in 1..3 : votos[j].tipo = r.tipo_detectado}}
               /\ \A p \in Range(r.detalhes.scores_por_analise) :
                      \E k \in 1..3 :
                          /\ Votantes[k] = p[1]
                          /\ p[2].n * 10 = votos[k].confianca.n * PesosDeclarados[k]

\* C23: when the semantic type is not 'nao_marcenaria', each candidate's
\* accumulated score is the sum of confidence * weight (semantic 0.2,
\* geometric 0.4, dimensional 0.3) over exactly the analyses naming that
\* candidate, computed in binary64; analyses of type 'indefinido',
\* 'invalido' or 'erro' make no candidate; with no candidate the result is
\* 'indefinido' with confidence 0.2; otherwise the result names a candidate
\* with that candidate's sum rounded to three decimals.  For the fusion
\* called directly and for the one inside analyze_component.
C23_Acumulacao ==
    /\ (fusao # Nenhum /\ analises.semantic.tipo # "nao_marcenaria") =>
           AcumulacaoDeclarada(fusao, analises)
    /\ (TemDetalhes /\ resultado.detalhes.semantic.tipo # "nao_marcenaria") =>
           AcumulacaoDeclarada(resultado, resultado.detalhes)

\* C23 witness: a fusion where the semantic and dimensional analyses named
\* the returned type, the geometric one was 'invalido', and the confidence
\* is 0.8 * 0.2 + 0.9 * 0.3 = 0.43.
C23_Witness ==
    /\ fusao # Nenhum
    /\ analises.semantic.tipo = "gaveta"
    /\ analises.semantic.confianca = Dec(4800)
    /\ analises.geometric.tipo = "invalido"
    /\ analises.geometric.confianca = Dec(6000)
    /\ analises.dimensional.tipo = "gaveta"
    /\ analises.dimensional.confianca = Dec(5400)
    /\ fusao.tipo_detectado = "gaveta"
    /\ fusao.confianca = Dec(2580)
    /\ Len(fusao.detalhes.scores_por_analise) = 2

\* The first of the three voting analyses that names the type.
PrimeiroVoto(tipo, votos) == MinOf({k \in 1..3 : votos[k].tipo = tipo})

\* The total accumulated for a candidate type.
TotalDe(tipo, cands) == (CHOOSE c \in Range(cands) : c.tipo = tipo).total_score

\* Two candidates of the fusion of the analyses a share the highest total.
EmpateNoTopo(a) ==
    LET cands == candidatos(a.semantic, a.geometric, a.dimensional)
    IN  \E i, j \in 1..Len(cands) :
            /\ i # j
            /\ cands[i].total_score = cands[j].total_score
            /\ \A k \in 1..Len(cands) : FLe(cands[k].total_score, cands[i].total_score)

\* The result r of fusing the analyses a names the candidate selected as declared.
SelecaoDeclarada(r, a) ==
    LET votos == <<a.semantic, a.geometric, a.dimensional>>
        cands == candidatos(a.semantic, a.geometric, a.dimensional)
        tipos == {cands[k].tipo : k \in 1..Len(cands)}
        t == r.tipo_detectado
    IN  tipos # {} =>
            /\ t \in tipos
            /\ \A u \in tipos :
                   /\ FLe(TotalDe(u, cands), TotalDe(t, cands))
                   /\ TotalDe(u, cands) = TotalDe(t, cands) =>
                          PrimeiroVoto(t, votos) <= PrimeiroVoto(u, votos)

\* C24: the detected type of a fused woodwork result is a candidate whose
\* accumulated score no other candidate exceeds, and among candidates with
\* that same score it is the one named first in the order semantic,
\* geometric, dimensional.  For the fusion called directly and for the one
\* inside analyze_component.
C24_SelecaoEDesempate ==
    /\ (fusao # Nenhum /\ analises.semantic.tipo # "nao_marcenaria") =>
           SelecaoDeclarada(fusao, analises)
    /\ (TemDetalhes /\ resultado.detalhes.semantic.tipo # "nao_marcenaria") =>
           SelecaoDeclarada(resultado, resultado.detalhes)

\* C24 witness: the semantic and dimensional analyses gave 'armario'
\* 0.5 * 0.2 + 1.0 * 0.3 = 0.4, the geometric one gave 'prateleira'
\* 1.0 * 0.4 = 0.4, and the fusion returned 'armario', named first.
C24_Witness ==
    /\ fusao # Nenhum
    /\ analises.semantic.tipo # "nao_marcenaria"
    /\ EmpateNoTopo(analises)
    /\ analises.semantic.tipo = "armario"
    /\ analises.geometric.tipo = "prateleira"
    /\ analises.dimensional.tipo = "armario"
    /\ fusao.tipo_detectado = "armario"
    /\ fusao.confianca = Dec(2400)
    /\ fusao.alternativas = <<"prateleira">>

\* The result is a fused woodwork result: it came from the branch with candidates.
Fundido(r) == "detalhes" \in DOMAIN r /\ "scores_por_analise" \in DOMAIN r.detalhes

\* The two suggestions of r are present exactly below 0.5 and below 0.7 of
\* the confidence c.
SugestoesPorLimiar(r, c) ==
    /\ "Baixa confianca - verificar manualmente" \in Range(r.sugestoes)
         <=> FLt(c, Dec(3000))
    /\ "Considerar classificacao alternativa" \in Range(r.sugestoes)
         <=> FLt(c, Dec(4200))
    /\ "Baixa confianca - verificar manualmente" \in Range(r.sugestoes)
         => "Considerar classificacao alternativa" \in Range(r.sugestoes)

\* C25: in every fused woodwork result 'Baixa confianca - verificar
\* manualmente' is present if and only if the result's confidence is below
\* 0.5, and 'Considerar classificacao alternativa' if and only if it is
\* below 0.7, so the first never comes without the second.  For the fusion
\* called directly and for the one inside analyze_component.
C25_SugestoesDaFusao ==
    /\ (fusao # Nenhum /\ Fundido(fusao)) => SugestoesPorLimiar(fusao, fusao.confianca)
    /\ (Analisado /\ Fundido(resultado)) =>
           SugestoesPorLimiar(resultado, resultado.confianca)

\* Two rearrangements of the positions 1..n that generate every permutation:
\* the exchange of the first two and the rotation by one.
Rearranjos(n) ==
    IF n < 2 THEN {}
    ELSE {[k \in 1..n |-> IF k = 1 THEN 2 ELSE IF k = 2 THEN 1 ELSE k],
          [k \in 1..n |-> IF k = n THEN 1 ELSE k + 1]}

\* The counts of the statistics of a batch.
Contagens(b) ==
    [c \in {"total", "validos", "marcenaria", "nao_marcenaria", "indefinidos"} |->
        b.estatisticas[c]]

\* The type-frequency mapping of a batch, as the set of its items.
Frequencias(b) == Range(b.estatisticas.tipos_detectados)

\* C26: in analyze_batch the i-th entry of 'resultados' is what
\* analyze_component returns for the i-th input analysed alone, and analysing
\* the list rearranged (first two exchanged, or rotated by one; all lists of
\* each length are analysed, so every permutation is reached) rearranges
\* 'resultados' the same way and leaves 'total', 'validos', 'marcenaria',
\* 'nao_marcenaria', 'indefinidos' and the type-frequency mapping unchanged.
C26_SemAcoplamento ==
    lote # Nenhum =>
        /\ Len(lote.resultados) = Len(componentes)
        /\ Analisado =>
               \A i \in 1..Len(componentes) :
                   componentes[i] = analisado => lote.resultados[i] = resultado
        /\ analisado = Nenhum =>
               \A p \in Rearranjos(Len(componentes)) :
                   \A b \in {analyze_batch([k \in 1..Len(componentes) |->
                                               componentes[p[k]]])} :
                       /\ \A k \in 1..Len(componentes) :
                              b.resultados[k] = lote.resultados[p[k]]
                       /\ Contagens(b) = Contagens(lote)
                       /\ Frequencias(b) = Frequencias(lote)

\* C26 witness: a batch of three with two different woodwork types and a
\* rejected component between them has been analysed; rotated, it lists
\* the types in another order.
C26_Witness ==
    /\ lote # Nenhum
    /\ analisado = Nenhum
    /\ Len(componentes) = 3
    /\ Len(lote.estatisticas.tipos_detectados) = 2
    /\ lote.resultados[2].tipo_detectado = "invalido"
    /\ lote.estatisticas.validos = 2
    /\ analyze_batch(<<componentes[2], componentes[3], componentes[1]>>)
           .estatisticas.tipos_detectados
         # lote.estatisticas.tipos_detectados

\* The result is a woodwork classification.
Marcenaria(r) ==
    r.tipo_detectado \notin {"invalido", "erro", "nao_marcenaria", "indefinido"}

\* What C27 says of one result of analyze_component.
SubstituicaoDeclarada(r) ==
    Marcenaria(r) =>
        /\ r.tipo_detectado \in Range(TiposConhecidos)
        /\ FLt(Dec(3600), r.confianca) =>
               /\ r.detalhes.semantic.tipo = r.tipo_detectado
               /\ r.detalhes.geometric.tipo = r.tipo_detectado
               /\ r.detalhes.dimensional.tipo = r.tipo_detectado
               /\ r.tipo_detectado \in {"despenseiro", "balcao", "gaveta", "prateleira"}
        /\ r.tipo_detectado \in {"armario", "porta", "gaveteiro"} =>
               FLe(r.confianca, Dec(2580))
        /\ FLe(r.confianca, Dec(4260))

\* C27: a result of analyze_component with a knowledge-base type and
\* confidence above 0.6 (what makes the file analyzer replace the baseline
\* type) has that type named by the semantic, the geometric and the
\* dimensional analysis, and the type is despenseiro, balcao, gaveta or
\* prateleira; a result of type armario, porta or gaveteiro has confidence at
\* most 0.43; and no woodwork result has confidence above 0.71.  For the
\* component analysed last and for every entry of a batch.
C27_SubstituicaoAlcancavel ==
    /\ Analisado => SubstituicaoDeclarada(resultado)
    /\ lote # Nenhum =>
           \A i \in 1..Len(lote.resultados) : SubstituicaoDeclarada(lote.resultados[i])

\* C27 witness: a shelf analysed with the highest confidence, 0.71, from
\* all three analyses.
C27_Witness ==
    /\ TemDetalhes
    /\ resultado.tipo_detectado = "prateleira"
    /\ resultado.confianca = Dec(4260)
    /\ Len(resultado.detalhes.scores_por_analise) = 3
    /\ resultado.sugestoes = <<>>

\* What C28 says of the alternatives of the result r of fusing the analyses a.
AlternativasDeclaradas(r, a) ==
    LET votos == <<a.semantic, a.geometric, a.dimensional>>
        cands == candidatos(a.semantic, a.geometric, a.dimensional)
        alt == r.alternativas
    IN  /\ Len(alt) <= 2
        /\ \A k \in 1..Len(alt) :
               /\ alt[k] \in Range(TiposConhecidos)
               /\ alt[k] \in TiposVotados(votos)
               /\ alt[k] # r.tipo_detectado
               /\ FLe(TotalDe(alt[k], cands), TotalDe(r.tipo_detectado, cands))
        /\ Len(alt) = 2 =>
               /\ alt[1] # alt[2]
               /\ FLe(TotalDe(alt[2], cands), TotalDe(alt[1], cands))
        \* the candidates not listed are beyond the two listed
        /\ \A t \in TiposVotados(votos) \ (Range(alt) \cup {r.tipo_detectado}) :
               /\ Len(alt) = 2
               /\ FLe(TotalDe(t, cands), TotalDe(alt[2], cands))
        /\ Len(alt) = Min2(2, Cardinality(TiposVotados(votos)) - 1)

\* C28: the alternatives of a fused result are at most two, distinct,
\* knowledge-base types named by a voting analysis, in order of
\* non-increasing accumulated score, none of them above the detected type's
\* score and none of them the detected type, also when candidates tie for
\* the highest score; they are the other candidates when there are at most
\* two of those.  For the fusion called directly and for the one inside
\* analyze_component.
C28_Alternativas ==
    /\ (fusao # Nenhum /\ Fundido(fusao)) => AlternativasDeclaradas(fusao, analises)
    /\ (Analisado /\ Fundido(resultado)) =>
           AlternativasDeclaradas(resultado, resultado.detalhes)

\* C28 witness: 'gaveta' (semantic and dimensional, 0.1 + 0.3) tied with
\* 'prateleira' (geometric, 0.4) for the highest score; the fusion returned
\* 'gaveta' with 'prateleira' as its only alternative.
C28_Witness ==
    /\ fusao # Nenhum
    /\ Fundido(fusao)
    /\ EmpateNoTopo(analises)
    /\ fusao.tipo_detectado = "gaveta"
    /\ fusao.confianca = Dec(2400)
    /\ fusao.alternativas = <<"prateleira">>

-----------------------------------------------------------------------------
(* C29 *)

\* The component analysed last is what _processar_componente returns for
\* its own name, vertices and faces.
Extraido ==
    /\ Analisado
    /\ analisado # PyNone
    /\ DOMAIN analisado = {"nome", "area_m2", "vertices", "faces"}
    /\ analisado.nome # PyNone
    /\ analisado.faces # PyNone
    /\ analisado = processar_componente(analisado.nome.v, analisado.vertices,
                                        analisado.faces.v)

\* The largest face of the analysed component's bounding box (mm2) and its
\* smallest dimension (mm).
MaiorFace == MaxOf(Range(areas_faces(bounding_box(analisado.vertices))))
MenorDimensao == MinOf(Range(bounding_box(analisado.vertices)))

\* C29 as stated: for a component the geometry extractor produced, the
\* validator's density volume/area equals the smallest bounding-box dimension
\* (the area is the largest face exactly), and every such component whose
\* smallest dimension is below 100 mm is classified 'invalido', never
\* 'prateleira' or 'porta'.
C29_DensidadeIgualMenorDimensao ==
    Extraido =>
        /\ 1000 * analisado.area_m2.v = MaiorFace
        /\ MenorDimensao < 100 =>
               /\ resultado.tipo_detectado = "invalido"
               /\ resultado.tipo_detectado \notin {"prateleira", "porta"}

\* C29: for a component the geometry extractor produced, the area is the
\* largest bounding-box face rounded to four decimals, within [0.01, 25] m2,
\* so the density differs from the smallest dimension by at most 0.5 %; every
\* such component whose smallest dimension is at most 99.5 mm is classified
\* 'invalido' with confidence 0, never 'prateleira' or 'porta', and when the
\* dimensions and the proportion are acceptable the reason is the density.
C29_PaineisFinosRejeitados ==
    Extraido =>
        /\ 1000 * analisado.area_m2.v - MaiorFace \in -50..50
        /\ analisado.area_m2.v \in 10..25000
        /\ 10 * MenorDimensao <= 995 =>
               /\ resultado.tipo_detectado = "invalido"
               /\ resultado.tipo_detectado \notin {"prateleira", "porta"}
               /\ resultado.confianca = Dec(0)
               /\ Falhas(convertido) \subseteq {6} =>
                      resultado.motivo.texto = "Densidade muito baixa"

\* C29 witness: the extractor's component for a shelf panel 800 x 20 x 300 mm
\* named Shelf_01 has been analysed and rejected for its density of 0.02.
C29_Witness ==
    /\ Extraido
    /\ analisado.nome = PyStr("Shelf_01")
    /\ bounding_box(analisado.vertices) = <<800, 20, 300>>
    /\ analisado.area_m2 = PyNum(240)
    /\ resultado.tipo_detectado = "invalido"
    /\ resultado.motivo.texto = "Densidade muito baixa"

-----------------------------------------------------------------------------
(* C30 *)

\* The bounds of the rule set other than those on the volume, stated on the
\* converted component in the rules' units.
LimitesVerificados(comp) ==
    LET rules == validation_rules
    IN  /\ \A i \in 1..Len(comp.dimensoes) :
              /\ comp.dimensoes[i] >= rules.dimensao_minima
              /\ comp.dimensoes[i] <= rules.dimensao_maxima
        /\ comp.area_m2.v >= rules.area_minima
        /\ comp.area_m2.v <= rules.area_maxima
        /\ MaxOf(Range(comp.dimensoes))
             <= rules.proporcao_maxima * MinOf(Range(comp.dimensoes))
        /\ ~densidade_abaixo(comp, rules.densidade_minima)
        /\ ~densidade_acima(comp, rules.densidade_maxima)

\* volume_minimo <= volume_m3 <= volume_maximo, the volume in cells of
\* 125 mm3 and the bounds in thousandths of m3 (8000 cells each).
VolumeNosLimites(comp) ==
    /\ comp.volume_m3 >= 8000 * validation_rules.volume_minimo
    /\ comp.volume_m3 <= 8000 * validation_rules.volume_maximo

\* C30: every component that _validate_component accepts satisfies all bounds
\* of the rule set: each dimension in [10, 5000] mm, the area in [0.01, 25] m2,
\* the ratio of the largest to the smallest dimension at most 100, the density
\* in [0.1, 2.0], and the volume in [0.001, 10.0] m3.
C30_TodosOsLimites ==
    (Validavel /\ validacao.is_valid) =>
        /\ LimitesVerificados(convertido)
        /\ VolumeNosLimites(convertido)

=============================================================================
